---- MODULE Spec2Model ----
(***************************************************************************)
(* A model of the global event subsystem of                                *)
(* SimTKcommon/Simulation/src/SystemGlobalSubsystem.cpp: the dynamic       *)
(* EventTriggerCollection, the event and trigger registries, the topology  *)
(* cache, the active-set queries, the next-event scheduler and the         *)
(* occurrence resolver.                                                    *)
(*                                                                         *)
(* Ids and indices are 0-based as in the C++ code; TLA+ sequences are      *)
(* 1-based, so the object with id k sits at position k+1.                  *)
(***************************************************************************)
EXTENDS Integers, Sequences, FiniteSets, TLC

VARIABLES
    m_events,           \* Guts::m_events: the event registry
    m_triggers,         \* Guts::m_triggers: the trigger registry
    m_timers,           \* Guts::m_timers: topology cache, timers
    m_witnesses,        \* Guts::m_witnesses: topology cache, witnesses
    m_witnessesByStage, \* Guts::m_witnessesByStage[stage][deriv]
    predefined,         \* Guts::m_initializationEventId .. m_terminationTriggerId
    legacy,             \* Guts::m_scheduledEventHandlers .. m_triggeredEventReporters
    adopted,            \* what each adoption call was handed and returned
    other,              \* the Guts of a copy of the system (cloneImpl), if any
    stageVersions,      \* the study's internal State: system stage versions
    result,             \* caller's EventChangeResult
    performed,          \* the actions invoked so far, in order
    coll_timers,        \* EventTriggerCollection::m_timers (slot array)
    coll_freeTimers,    \* EventTriggerCollection::m_freeTimers (stack)
    coll_witnesses,     \* EventTriggerCollection::m_witnesses (slot array)
    coll_freeWitnesses, \* EventTriggerCollection::m_freeWitnesses (stack)
    nextObj,            \* number of objects handed to the collection so far
    scenario,           \* progress of the witness operations through S6
    triggeredEvents,    \* caller's appendTriggeredEvents array
    ignoredEventIds,    \* caller's appendIgnoredEvents array
    timeOfNextReport,   \* caller's output arguments of
    reportTimers,       \*   findNextScheduledEventTimes
    timeOfNextChange,
    changeTimers,
    activeTimers,       \* caller's output of findActiveEventTimers
    activeWitnesses,    \* caller's output of findActiveEventWitnesses
    calls,              \* resolver and scheduler calls made so far
    call                \* the last operation: its name, arguments, results

vars == << m_events, m_triggers, m_timers, m_witnesses, m_witnessesByStage,
           predefined, legacy, adopted, other, stageVersions, result,
           performed,
           coll_timers, coll_freeTimers, coll_witnesses, coll_freeWitnesses,
           nextObj, scenario, triggeredEvents, ignoredEventIds,
           timeOfNextReport, reportTimers, timeOfNextChange, changeTimers,
           activeTimers, activeWitnesses, calls, call >>

registryVars == << m_events, m_triggers >>
cacheVars == << m_timers, m_witnesses, m_witnessesByStage >>
gutsVars == << predefined, legacy, adopted, other >>
dispatchVars == << stageVersions, result, performed >>
collVars == << coll_timers, coll_freeTimers, coll_witnesses,
               coll_freeWitnesses, nextObj, scenario >>
noteVars == << triggeredEvents, ignoredEventIds >>
schedVars == << timeOfNextReport, reportTimers, timeOfNextChange,
                changeTimers >>
activeVars == << activeTimers, activeWitnesses, calls >>

(***************************************************************************)
(* Bounds of the model.                                                    *)
(***************************************************************************)
\* objects handed to the dynamic collection (timers and witnesses together)
MaxAdopts == 4
\* objects handed to the dynamic collection of a system's state
MaxDynamic == 2
\* user events adopted after the predefined ones
MaxUserEvents == 1
\* user triggers adopted after the predefined ones
MaxUserTriggers == 2
\* EventIds one user trigger lists
MaxEventIds == 2
\* finite trigger times are 1..MaxTime; times of last report/change 0..MaxTime-1
MaxTime == 2
\* timers of a scheduler population in which each timer causes one user event
MaxSchedTimers == 3
\* triggers handed to one noteEventOccurrence call
MaxNoteLen == 2
\* noteEventOccurrence / findNextScheduledEventTimes calls in one run
MaxCalls == 2
\* stages a witness function may depend on (Stage::NValid, scaled down)
NWitnessStages == 2
\* resolver and dispatcher calls in one run of an event step
MaxSteps == 3

(***************************************************************************)
(* Program constants.                                                      *)
(***************************************************************************)
\* nullptr in a unique_ptr slot
NullObj == 0
\* dInfinity: larger than every finite time
Infinity == 1000
\* EventWitness::MaxDeriv: the highest derivative order the cache handles
MaxDeriv == 2
\* the invalid sentinel of an id type (isValid() is false)
InvalidId == -1

Last(s) == s[Len(s)]
Front(s) == SubSeq(s, 1, Len(s) - 1)
Range(s) == { s[i] : i \in 1..Len(s) }
IsIn(x, s) == \E i \in 1..Len(s) : s[i] = x
Count(x, s) == Cardinality({ i \in 1..Len(s) : s[i] = x })
NoCall == [op |-> "none"]

\* No copy of the system has been made.
NoCopy == [copied |-> FALSE, events |-> << >>, triggers |-> << >>,
           sharedEvents |-> 0, sharedTriggers |-> 0,
           timers |-> << >>, witnesses |-> << >>]

(***************************************************************************)
(*                      EVENT TRIGGER COLLECTION                           *)
(***************************************************************************)

\* findFreeSlot with a queue instead of a stack (oldest free slot first).
findFreeSlot_Fifo(things, freeSlots) ==
    IF freeSlots # << >>
        THEN [slot |-> Head(freeSlots), things |-> things,
              freeSlots |-> Tail(freeSlots)]
        ELSE [slot |-> Len(things), things |-> Append(things, NullObj),
              freeSlots |-> freeSlots]

\* findFreeSlot that reads the top of the stack and leaves it there.
findFreeSlot_NoPop(things, freeSlots) ==
    IF freeSlots # << >>
        THEN [slot |-> Last(freeSlots), things |-> things,
              freeSlots |-> freeSlots]
        ELSE [slot |-> Len(things), things |-> Append(things, NullObj),
              freeSlots |-> freeSlots]

\* EventTriggerCollection::findFreeSlot: pop the free-slot stack, or make room.
findFreeSlot(things, freeSlots) ==
    IF freeSlots # << >>
        THEN [slot |-> Last(freeSlots), things |-> things,
              freeSlots |-> Front(freeSlots)]
        ELSE [slot |-> Len(things), things |-> Append(things, NullObj),
              freeSlots |-> freeSlots]

\* EventTriggerCollection::adoptThing. assertOk is the assert of line 92.
adoptThing(thing, things, freeSlots) ==
    LET f == findFreeSlot(things, freeSlots)
    IN  [ret |-> f.slot,
         assertOk |-> f.things[f.slot + 1] = NullObj,
         things |-> [f.things EXCEPT ![f.slot + 1] = thing],
         freeSlots |-> f.freeSlots]

\* removeThing that forgets to push the emptied slot on the free-slot stack.
removeThing_NoPush(thingIndex, things, freeSlots) ==
    IF thingIndex = Len(things) - 1
        THEN [things |-> Front(things), freeSlots |-> freeSlots]
        ELSE [things |-> [things EXCEPT ![thingIndex + 1] = NullObj],
              freeSlots |-> freeSlots]

\* removeThing that pushes the index on the free-slot stack in both branches.
removeThing_AlwaysPush(thingIndex, things, freeSlots) ==
    IF thingIndex = Len(things) - 1
        THEN [things |-> Front(things),
              freeSlots |-> Append(freeSlots, thingIndex)]
        ELSE [things |-> [things EXCEPT ![thingIndex + 1] = NullObj],
              freeSlots |-> Append(freeSlots, thingIndex)]

RECURSIVE TrimTrailing(_)
TrimTrailing(things) ==
    IF things # << >> /\ Last(things) = NullObj
        THEN TrimTrailing(Front(things))
        ELSE things

\* removeThing that also drops every trailing empty slot (and its free entry).
removeThing_Trim(thingIndex, things, freeSlots) ==
    IF thingIndex = Len(things) - 1
        THEN LET t == TrimTrailing(Front(things))
             IN  [things |-> t,
                  freeSlots |-> SelectSeq(freeSlots, LAMBDA i : i < Len(t))]
        ELSE [things |-> [things EXCEPT ![thingIndex + 1] = NullObj],
              freeSlots |-> Append(freeSlots, thingIndex)]

\* EventTriggerCollection::removeThing, called on an occupied slot (line 101).
removeThing(thingIndex, things, freeSlots) ==
    IF thingIndex = Len(things) - 1
        THEN [things |-> Front(things), freeSlots |-> freeSlots]
        ELSE [things |-> [things EXCEPT ![thingIndex + 1] = NullObj],
              freeSlots |-> Append(freeSlots, thingIndex)]

\* The witness operations of scenario S6, in order: <<operation, index>>.
S6Steps ==
    << <<"adopt", 0>>, <<"adopt", 1>>, <<"adopt", 2>>, <<"remove", 1>>,
       <<"adopt", 1>>, <<"remove", 1>>, <<"remove", 2>> >>

\* scenario = k >= 0: the witness operations so far are exactly the first k
\* steps of S6 on an initially empty collection; -1: they are not.
ScenarioNext(op, index) ==
    IF scenario >= 0 /\ scenario < Len(S6Steps)
       /\ S6Steps[scenario + 1] = <<op, index>>
        THEN scenario + 1
        ELSE -1

\* EventTriggerCollection::adoptTimer, while fewer than limit objects were
\* handed to the collection
adoptTimerUpTo(limit) ==
    /\ nextObj < limit
    /\ LET r == adoptThing(nextObj + 1, coll_timers, coll_freeTimers)
       IN  /\ coll_timers' = r.things
           /\ coll_freeTimers' = r.freeSlots
           /\ call' = [op |-> "adoptTimer", obj |-> nextObj + 1,
                       ret |-> r.ret, assertOk |-> r.assertOk]
    /\ nextObj' = nextObj + 1
    /\ UNCHANGED << gutsVars, dispatchVars, registryVars, cacheVars, coll_witnesses,
                    coll_freeWitnesses, scenario, noteVars, schedVars,
                    activeVars >>

\* EventTriggerCollection::removeTimer, on an occupied index
removeTimer ==
    /\ \E i \in 0..(Len(coll_timers) - 1) :
        /\ coll_timers[i + 1] # NullObj
        /\ LET r == removeThing(i, coll_timers, coll_freeTimers)
           IN  /\ coll_timers' = r.things
               /\ coll_freeTimers' = r.freeSlots
               /\ call' = [op |-> "removeTimer", index |-> i,
                           obj |-> coll_timers[i + 1]]
    /\ UNCHANGED << gutsVars, dispatchVars, registryVars, cacheVars, coll_witnesses,
                    coll_freeWitnesses, nextObj, scenario, noteVars,
                    schedVars, activeVars >>

\* EventTriggerCollection::adoptWitness, while fewer than limit objects were
\* handed to the collection
adoptWitnessUpTo(limit) ==
    /\ nextObj < limit
    /\ LET r == adoptThing(nextObj + 1, coll_witnesses, coll_freeWitnesses)
       IN  /\ coll_witnesses' = r.things
           /\ coll_freeWitnesses' = r.freeSlots
           /\ call' = [op |-> "adoptWitness", obj |-> nextObj + 1,
                       ret |-> r.ret, assertOk |-> r.assertOk]
           /\ scenario' = ScenarioNext("adopt", r.ret)
    /\ nextObj' = nextObj + 1
    /\ UNCHANGED << gutsVars, dispatchVars, registryVars, cacheVars, coll_timers, coll_freeTimers,
                    noteVars, schedVars, activeVars >>

\* EventTriggerCollection::removeWitness, on an occupied index
removeWitness ==
    /\ \E i \in 0..(Len(coll_witnesses) - 1) :
        /\ coll_witnesses[i + 1] # NullObj
        /\ LET r == removeThing(i, coll_witnesses, coll_freeWitnesses)
           IN  /\ coll_witnesses' = r.things
               /\ coll_freeWitnesses' = r.freeSlots
               /\ call' = [op |-> "removeWitness", index |-> i,
                           obj |-> coll_witnesses[i + 1]]
               /\ scenario' = ScenarioNext("remove", i)
    /\ UNCHANGED << gutsVars, dispatchVars, registryVars, cacheVars, coll_timers, coll_freeTimers,
                    nextObj, noteVars, schedVars, activeVars >>

\* A default-constructed EventTriggerCollection and untouched caller arrays.
InitColl ==
    /\ coll_timers = << >>
    /\ coll_freeTimers = << >>
    /\ coll_witnesses = << >>
    /\ coll_freeWitnesses = << >>
    /\ nextObj = 0
    /\ scenario = 0

\* The stages of a State, lowest first; StageInfinity is above them all.
Stages == 0..(NWitnessStages - 1)
StageInfinity == NWitnessStages

\* EventChangeResult::clear: no exit status reported, no stage modified.
ClearResult == [statuses |-> << >>, lowestModifiedStage |-> StageInfinity]

InitOutputs ==
    /\ stageVersions = [g \in Stages |-> 1]
    /\ result = ClearResult
    /\ performed = << >>
    /\ triggeredEvents = << >>
    /\ ignoredEventIds = << >>
    /\ timeOfNextReport = 0
    /\ reportTimers = << >>
    /\ timeOfNextChange = 0
    /\ changeTimers = << >>
    /\ activeTimers = << >>
    /\ activeWitnesses = << >>
    /\ calls = 0
    /\ call = NoCall

\* The collection on its own, before any Guts is involved.
InitCollOnly ==
    /\ m_events = << >>
    /\ m_triggers = << >>
    /\ m_timers = << >>
    /\ m_witnesses = << >>
    /\ m_witnessesByStage = << >>
    /\ predefined = << >>
    /\ legacy = << >>
    /\ adopted = << >>
    /\ other = NoCopy
    /\ InitColl
    /\ InitOutputs

adoptTimer == adoptTimerUpTo(MaxAdopts)
adoptWitness == adoptWitnessUpTo(MaxAdopts)

NextColl ==
    \/ adoptTimer
    \/ removeTimer
    \/ adoptWitness
    \/ removeWitness

SpecColl == InitCollOnly /\ [][NextColl]_vars

(***************************************************************************)
(*                 REGISTRIES AND TOPOLOGY CACHE (Guts)                    *)
(***************************************************************************)

\* All sequences over S of length at most n.
RECURSIVE BSeq(_, _)
BSeq(S, n) ==
    IF n = 0
        THEN { << >> }
        ELSE LET shorter == BSeq(S, n - 1)
             IN  shorter \cup { Append(q, x) : q \in shorter, x \in S }

\* An Event object before adoption: its actions' kinds, in adoption order,
\* and its mutable occurrence counter. m_eventId is invalid (-1) until adopted.
NewEvent(actions) == [id |-> -1, actions |-> actions, occ |-> 0]

\* An EventTrigger object before adoption. kind tells what dynamic_cast
\* finds: "Timer" (EventTimer), "Witness" (EventWitness) or "Other".
\* fireAt is the instant a timer triggers (Infinity: never).
\* numDerivs, stages and direction matter for a witness only: stages[d+1]
\* is the stage its d-th time derivative depends on, direction the sign
\* transitions it triggers on.
NewTrigger(kind, eventIds, fireAt) ==
    [id |-> -1, kind |-> kind, eventIds |-> eventIds, occ |-> 0,
     fireAt |-> fireAt, timerIndex |-> -1, witnessIndex |-> -1,
     numDerivs |-> 0, stages |-> << 0 >>,
     direction |-> IF kind = "Witness" THEN "RisingAndFalling" ELSE "None"]

\* An EventWitness with numDerivs time derivatives available.
NewWitness(eventIds, numDerivs, stages) ==
    [NewTrigger("Witness", eventIds, Infinity) EXCEPT
        !.numDerivs = numDerivs, !.stages = stages]

\* A null Event* / EventTrigger* (nullptr, lines 643 and 656).
NullPtr == [null |-> TRUE]

\* adoptEvent that takes the id from the registry's size after the push.
adoptEventInto_IdAfterPush(events, eventp) ==
    Append(events, [eventp EXCEPT !.id = Len(events) + 1])

\* SystemGlobalSubsystem::adoptEvent on a non-null Event: the registry after.
adoptEventInto(events, eventp) ==
    Append(events, [eventp EXCEPT !.id = Len(events)])

\* adoptEvent returning the registry's new size instead of the id.
adoptEventCall_ReturnsSize(events, eventp) ==
    IF eventp = NullPtr
        THEN [status |-> "InvalidArgument", events |-> events,
              ret |-> InvalidId]
        ELSE [status |-> "ok", events |-> adoptEventInto(events, eventp),
              ret |-> Len(adoptEventInto(events, eventp))]

\* adoptEvent without the null check of line 643: the null pointer is stored.
adoptEventCall_NoNullCheck(events, eventp) ==
    IF eventp = NullPtr
        THEN [status |-> "ok", events |-> Append(events, NullPtr),
              ret |-> Len(events)]
        ELSE [status |-> "ok", events |-> adoptEventInto(events, eventp),
              ret |-> Last(adoptEventInto(events, eventp)).id]

\* SystemGlobalSubsystem::adoptEvent: the null check, then the adoption; the
\* id returned is the one written into the Event (line 647).
adoptEventCall(events, eventp) ==
    IF eventp = NullPtr
        THEN [status |-> "InvalidArgument", events |-> events,
              ret |-> InvalidId]
        ELSE [status |-> "ok", events |-> adoptEventInto(events, eventp),
              ret |-> Last(adoptEventInto(events, eventp)).id]

\* adoptEventTrigger that puts the new trigger in front of the others.
adoptEventTriggerInto_Front(triggers, triggerp) ==
    << [triggerp EXCEPT !.id = Len(triggers)] >> \o triggers

\* SystemGlobalSubsystem::adoptEventTrigger on a non-null EventTrigger.
adoptEventTriggerInto(triggers, triggerp) ==
    Append(triggers, [triggerp EXCEPT !.id = Len(triggers)])

\* SystemGlobalSubsystem::adoptEventTrigger: null check, then the adoption.
adoptEventTriggerCall(triggers, triggerp) ==
    IF triggerp = NullPtr
        THEN [status |-> "InvalidArgument", triggers |-> triggers,
              ret |-> InvalidId]
        ELSE [status |-> "ok",
              triggers |-> adoptEventTriggerInto(triggers, triggerp),
              ret |-> Last(adoptEventTriggerInto(triggers, triggerp)).id]

\* Adopt the given objects in order.
RECURSIVE adoptAllEvents(_, _)
adoptAllEvents(events, news) ==
    IF news = << >> THEN events
    ELSE adoptAllEvents(adoptEventInto(events, Head(news)), Tail(news))

RECURSIVE adoptAllTriggers(_, _)
adoptAllTriggers(triggers, news) ==
    IF news = << >> THEN triggers
    ELSE adoptAllTriggers(adoptEventTriggerInto(triggers, Head(news)), Tail(news))

\* The events adopted by the constructor: Initialization, TimeAdvanced,
\* Termination, ExtremeValueIsolated.
ConstructedEvents ==
    adoptEventInto(adoptEventInto(adoptEventInto(adoptEventInto(<< >>,
        NewEvent(<< >>)), NewEvent(<< >>)), NewEvent(<< >>)), NewEvent(<< >>))

\* The triggers adopted by the constructor: InitializationTrigger,
\* TimeAdvancedTrigger, TerminationTrigger, each causing its own event.
ConstructedTriggers ==
    adoptEventTriggerInto(adoptEventTriggerInto(adoptEventTriggerInto(<< >>,
        NewTrigger("Other", << ConstructedEvents[1].id >>, Infinity)),
        NewTrigger("Other", << ConstructedEvents[2].id >>, Infinity)),
        NewTrigger("Other", << ConstructedEvents[3].id >>, Infinity))

\* The ids the constructor stores in the Guts (lines 503-514): each is the
\* id its adoption call returned.
ConstructedIds ==
    [initializationEventId |-> ConstructedEvents[1].id,
     timeAdvancedEventId |-> ConstructedEvents[2].id,
     terminationEventId |-> ConstructedEvents[3].id,
     extremeValueIsolatedEventId |-> ConstructedEvents[4].id,
     initializationTriggerId |-> ConstructedTriggers[1].id,
     timeAdvancedTriggerId |-> ConstructedTriggers[2].id,
     terminationTriggerId |-> ConstructedTriggers[3].id]

\* The four arrays of adopted legacy handlers and reporters, empty.
NoLegacy ==
    [scheduledEventHandlers |-> << >>, triggeredEventHandlers |-> << >>,
     scheduledEventReporters |-> << >>, triggeredEventReporters |-> << >>]

\* What the adoption calls that built the registries were handed (the
\* object's contents) and returned (its id), in call order.
AdoptedOf(things) ==
    [k \in 1..Len(things) |-> [ret |-> things[k].id, obj |-> things[k]]]

\* The Guts members beside the registries, for a system whose registries were
\* built by the constructor and by adoptEvent / adoptEventTrigger calls.
InitGuts ==
    /\ predefined = ConstructedIds
    /\ legacy = NoLegacy
    /\ other = NoCopy
    /\ adopted = [events |-> AdoptedOf(m_events),
                  triggers |-> AdoptedOf(m_triggers)]

\* SystemGlobalSubsystem::getNumEvents / getNumEventTriggers
getNumEvents == Len(m_events)
getNumEventTriggers == Len(m_triggers)

\* SimTK::isIndexInRange
isIndexInRange(ix, ub) == 0 <= ix /\ ix < ub

\* hasEvent with the upper end of the range included.
hasEvent_UpperInclusive(events, id) == 0 <= id /\ id <= Len(events)

\* SystemGlobalSubsystem::hasEvent past its argument check (lines 694-695).
\* No registry slot is ever null: adoptEvent rejects a null pointer and
\* nothing removes an event.
hasEvent(events, id) ==
    isIndexInRange(id, Len(events)) /\ events[id + 1] # NullPtr

\* The partition with a trigger that is neither timer nor witness taken
\* for a timer.
RECURSIVE IdsOfKind_OtherAsTimer(_, _, _)
IdsOfKind_OtherAsTimer(triggers, kind, k) ==
    IF k > Len(triggers)
        THEN << >>
        ELSE (IF \/ triggers[k].kind = kind
                 \/ (kind = "Timer" /\ triggers[k].kind = "Other")
                THEN << k - 1 >> ELSE << >>)
             \o IdsOfKind_OtherAsTimer(triggers, kind, k + 1)

\* The trigger ids of the given kind, in registry order.
RECURSIVE IdsOfKind(_, _, _)
IdsOfKind(triggers, kind, k) ==
    IF k > Len(triggers)
        THEN << >>
        ELSE (IF triggers[k].kind = kind THEN << k - 1 >> ELSE << >>)
             \o IdsOfKind(triggers, kind, k + 1)

\* The position (0-based) of x in s, -1 when absent.
IndexOf(x, s) ==
    IF IsIn(x, s)
        THEN (CHOOSE i \in 1..Len(s) : s[i] = x /\ \A j \in 1..(i-1) : s[j] # x) - 1
        ELSE -1

Min(a, b) == IF a < b THEN a ELSE b

\* The by-stage arrays after clearCache.
EmptyByStage ==
    [g \in 0..(NWitnessStages - 1) |-> [d \in 0..MaxDeriv |-> << >>]]

\* Lines 283-288: the witness's index is pushed for deriv..nDerivs.
RECURSIVE PushDerivs(_, _, _, _)
PushDerivs(byStage, wp, witnessIndex, deriv) ==
    IF deriv > Min(MaxDeriv, wp.numDerivs)
        THEN byStage
        ELSE LET g == wp.stages[deriv + 1]
             IN  PushDerivs([byStage EXCEPT ![g][deriv] = Append(@, witnessIndex)],
                            wp, witnessIndex, deriv + 1)

\* Lines 266-293 for the witnesses: the walk over m_triggers from position k,
\* nw witnesses seen so far.
RECURSIVE WalkWitnesses(_, _, _, _)
WalkWitnesses(byStage, triggers, k, nw) ==
    IF k > Len(triggers)
        THEN byStage
        ELSE IF triggers[k].kind = "Witness"
            THEN WalkWitnesses(PushDerivs(byStage, triggers[k], nw, 0),
                               triggers, k + 1, nw + 1)
            ELSE WalkWitnesses(byStage, triggers, k + 1, nw)

\* realizeSubsystemTopologyImpl with clearCache left out: the new lists are
\* appended to whatever the cache held.
RealizedCache_NoClear(triggers, oldTimers, oldWitnesses, oldByStage) ==
    [timers |-> oldTimers \o IdsOfKind(triggers, "Timer", 1),
     witnesses |-> oldWitnesses \o IdsOfKind(triggers, "Witness", 1),
     byStage |-> WalkWitnesses(oldByStage, triggers, 1, Len(oldWitnesses))]

\* Guts::realizeSubsystemTopologyImpl: clearCache, then one walk over
\* m_triggers; a trigger that is neither timer nor witness is skipped.
RealizedCache(triggers, oldTimers, oldWitnesses, oldByStage) ==
    [timers |-> IdsOfKind(triggers, "Timer", 1),
     witnesses |-> IdsOfKind(triggers, "Witness", 1),
     byStage |-> WalkWitnesses(EmptyByStage, triggers, 1, 0)]

\* Index writing that also counts the realization as an occurrence of each
\* timer.
IndexedTriggers_CountsRealization(triggers, cache) ==
    [k \in 1..Len(triggers) |->
        IF triggers[k].kind = "Timer"
            THEN [triggers[k] EXCEPT !.timerIndex = IndexOf(k - 1, cache.timers),
                                     !.occ = @ + 1]
            ELSE IF triggers[k].kind = "Witness"
                THEN [triggers[k] EXCEPT
                        !.witnessIndex = IndexOf(k - 1, cache.witnesses)]
                ELSE triggers[k]]

\* The trigger objects after realizeTopology wrote m_timerIndex and
\* m_witnessIndex into them.
IndexedTriggers(triggers, cache) ==
    [k \in 1..Len(triggers) |->
        IF triggers[k].kind = "Timer"
            THEN [triggers[k] EXCEPT !.timerIndex = IndexOf(k - 1, cache.timers)]
            ELSE IF triggers[k].kind = "Witness"
                THEN [triggers[k] EXCEPT
                        !.witnessIndex = IndexOf(k - 1, cache.witnesses)]
                ELSE triggers[k]]

\* Guts::realizeSubsystemTopologyImpl
realizeTopology ==
    /\ LET c == RealizedCache(m_triggers, m_timers, m_witnesses,
                              m_witnessesByStage)
       IN  /\ m_timers' = c.timers
           /\ m_witnesses' = c.witnesses
           /\ m_witnessesByStage' = c.byStage
           /\ m_triggers' = IndexedTriggers(m_triggers, c)
    /\ call' = [op |-> "realizeTopology",
                pre |-> [numTimers |-> Len(m_timers),
                         numWitnesses |-> Len(m_witnesses)]]
    /\ UNCHANGED << gutsVars, dispatchVars, m_events, collVars, noteVars, schedVars, activeVars >>

\* A pointer to a trigger owned by the system's registry / held by the
\* state's dynamic collection.
StaticPtr(id) == [owner |-> "system", id |-> id]
DynamicPtr(obj) == [owner |-> "state", id |-> obj]
StaticPtrs(ids) == [k \in 1..Len(ids) |-> StaticPtr(ids[k])]

\* The objects of a slot array in slot order, empty slots skipped.
HeldIn(things) ==
    LET held == SelectSeq(things, LAMBDA o : o # NullObj)
    IN  [k \in 1..Len(held) |-> DynamicPtr(held[k])]

\* SystemGlobalSubsystem::findActiveEventTimers: assigns the cached timers;
\* the dynamic timers are not collected (TODO of line 773).
ActiveTimers(cacheTimers, dynTimers) == StaticPtrs(cacheTimers)

\* SystemGlobalSubsystem::findActiveEventWitnesses (TODO of line 762).
ActiveWitnesses(cacheWitnesses, dynWitnesses) == StaticPtrs(cacheWitnesses)

\* SystemGlobalSubsystem::findActiveEventTimers
findActiveEventTimers ==
    /\ activeTimers' = ActiveTimers(m_timers, coll_timers)
    /\ call' = [op |-> "findActiveEventTimers"]
    /\ UNCHANGED << gutsVars, dispatchVars, registryVars, cacheVars, collVars, noteVars, schedVars,
                    activeWitnesses, calls >>

\* SystemGlobalSubsystem::findActiveEventWitnesses
findActiveEventWitnesses ==
    /\ activeWitnesses' = ActiveWitnesses(m_witnesses, coll_witnesses)
    /\ call' = [op |-> "findActiveEventWitnesses"]
    /\ UNCHANGED << gutsVars, dispatchVars, registryVars, cacheVars, collVars, noteVars, schedVars,
                    activeTimers, calls >>

\* Kinds of the actions an adopted user Event may carry.
EventActionChoices == { << >>, << "Report" >>, << "Change" >>,
                        << "Report", "Change" >> }

\* The builds of the library: SimTK_APIARGCHECK and assert() are compiled
\* in a debug build only; the _ALWAYS checks are in both.
Builds == { "debug", "release" }

\* SystemGlobalSubsystem::adoptEvent, with a null or a non-null Event
adoptEventUpTo(limit) ==
    /\ \E eventp \in { NullPtr } \cup { NewEvent(a) : a \in EventActionChoices } :
        /\ eventp # NullPtr => Len(m_events) < Len(ConstructedEvents) + limit
        /\ LET c == adoptEventCall(m_events, eventp)
           IN  /\ m_events' = c.events
               /\ adopted' = IF c.status = "ok"
                    THEN [adopted EXCEPT !.events =
                            Append(@, [ret |-> c.ret, obj |-> Last(c.events)])]
                    ELSE adopted
               /\ call' = [op |-> "adoptEvent", arg |-> eventp,
                           status |-> c.status, ret |-> c.ret,
                           pre |-> [events |-> m_events,
                                    triggers |-> m_triggers]]
    /\ UNCHANGED << predefined, other, legacy, dispatchVars, m_triggers, cacheVars,
                    collVars, noteVars, schedVars, activeVars >>

adoptEvent == adoptEventUpTo(MaxUserEvents)

\* The triggers adoptEventTrigger is handed: a timer, a witness or another
\* trigger that lists the most recently adopted event, or a null pointer.
TriggerChoices ==
    { NullPtr } \cup
    { NewTrigger(kind, << Len(m_events) - 1 >>,
                 IF kind = "Timer" THEN 1 ELSE Infinity) :
        kind \in { "Timer", "Witness", "Other" } }

\* SystemGlobalSubsystem::adoptEventTrigger
adoptEventTriggerOf(choices, limit) ==
    /\ \E triggerp \in choices :
        /\ triggerp # NullPtr =>
                Len(m_triggers) < Len(ConstructedTriggers) + limit
        /\ LET c == adoptEventTriggerCall(m_triggers, triggerp)
           IN  /\ m_triggers' = c.triggers
               /\ adopted' = IF c.status = "ok"
                    THEN [adopted EXCEPT !.triggers =
                            Append(@, [ret |-> c.ret, obj |-> Last(c.triggers)])]
                    ELSE adopted
               /\ call' = [op |-> "adoptEventTrigger", arg |-> triggerp,
                           status |-> c.status, ret |-> c.ret,
                           pre |-> [events |-> m_events,
                                    triggers |-> m_triggers]]
    /\ UNCHANGED << predefined, other, legacy, dispatchVars, m_events, cacheVars,
                    collVars, noteVars, schedVars, activeVars >>

adoptEventTrigger == adoptEventTriggerOf(TriggerChoices, MaxUserTriggers)

\* The state after SystemGlobalSubsystem's constructor ran.
Init ==
    /\ m_events = ConstructedEvents
    /\ m_triggers = ConstructedTriggers
    /\ m_timers = << >>
    /\ m_witnesses = << >>
    /\ m_witnessesByStage = EmptyByStage
    /\ InitGuts
    /\ InitColl
    /\ InitOutputs

Next ==
    \/ adoptEvent
    \/ adoptEventTrigger
    \/ realizeTopology
    \/ findActiveEventTimers
    \/ findActiveEventWitnesses
    \/ adoptTimerUpTo(MaxDynamic)
    \/ removeTimer
    \/ adoptWitnessUpTo(MaxDynamic)
    \/ removeWitness

Spec == Init /\ [][Next]_vars

\* The stage lists of a witness with n time derivatives: one stage per
\* derivative order the cache can ask for (orders above MaxDeriv are never
\* asked for and are given stage 0).
StageLists(n) ==
    { [d \in 1..(n + 1) |-> IF d <= Len(q) THEN q[d] ELSE 0] :
        q \in [1..(Min(MaxDeriv, n) + 1) -> Stages] }

\* The triggers handed to adoptEventTrigger before a topology realization:
\* a timer, some other trigger, a null pointer, or a witness with up to
\* MaxDeriv+1 time derivatives depending on any stages.
TopoTriggerChoices ==
    { NullPtr, NewTrigger("Timer", << 0 >>, 1),
      NewTrigger("Other", << 0 >>, Infinity) }
    \cup UNION { { NewWitness(<< 0 >>, n, st) : st \in StageLists(n) } :
                    n \in 0..(MaxDeriv + 1) }

\* Adoptions of triggers and topology realizations on a constructed system.
NextTopo ==
    \/ adoptEventTriggerOf(TopoTriggerChoices, MaxUserTriggers)
    \/ realizeTopology

SpecTopo == Init /\ [][NextTopo]_vars

(***************************************************************************)
(*                 PERFORM EVENT REPORT / CHANGE ACTIONS                   *)
(***************************************************************************)

\* State::getLowestSystemStageDifference: the lowest stage, from g up, whose
\* version differs from the saved one; StageInfinity when none does.
RECURSIVE LowestStageDifference(_, _, _)
LowestStageDifference(saved, versions, g) ==
    IF g >= StageInfinity
        THEN StageInfinity
        ELSE IF versions[g] # saved[g]
            THEN g
            ELSE LowestStageDifference(saved, versions, g + 1)

\* What a change action does to the State: it modifies a state variable of
\* stage g, which invalidates g and every later stage (a new version for
\* each), or it modifies nothing (StageInfinity).
Invalidate(versions, g) ==
    [h \in Stages |-> IF h >= g THEN versions[h] + 1 ELSE versions[h]]

\* What one change action may do: the stage it modifies, the exit status
\* it reports into the EventChangeResult, and whether it calls adoptEvent
\* on the system. These actions leave the registries alone.
ChangeEffects ==
    { [stage |-> g, status |-> st, adopts |-> FALSE] :
        g \in Stages \cup { StageInfinity }, st \in { "Succeeded", "Failed" } }

\* Change actions of which some call adoptEvent with a new Event while they
\* run.
AdoptingChangeEffects ==
    { [stage |-> g, status |-> "Succeeded", adopts |-> a] :
        g \in { 0, StageInfinity }, a \in BOOLEAN }

\* An action that calls adoptEvent gets what adoptEvent does.
AdoptFromAction(events, fx) ==
    IF fx.adopts
        THEN adoptEventCall(events, NewEvent(<< >>))
        ELSE [status |-> "none", events |-> events, ret |-> InvalidId]

\* Event::performChangeActions: every Change action of the event, from the
\* k-th action on, is invoked with the study, the causes and the result.
RECURSIVE EventChangeActions(_, _, _, _)
EventChangeActions(acc, evnt, fx, k) ==
    IF k > Len(evnt.actions)
        THEN acc
        ELSE IF evnt.actions[k] = "Change"
            THEN EventChangeActions(
                    [versions |-> Invalidate(acc.versions, fx.stage),
                     result |-> [acc.result EXCEPT
                                    !.statuses = Append(@, fx.status)],
                     events |-> AdoptFromAction(acc.events, fx).events,
                     performed |-> Append(acc.performed,
                                    [event |-> evnt.id, kind |-> "Change",
                                     status |-> fx.status,
                                     adoption |->
                                        AdoptFromAction(acc.events, fx).status])],
                    evnt, fx, k + 1)
            ELSE EventChangeActions(acc, evnt, fx, k + 1)

\* Event::performReportActions: every Report action of the event is invoked.
RECURSIVE EventReportActions(_, _, _)
EventReportActions(log, evnt, k) ==
    IF k > Len(evnt.actions)
        THEN log
        ELSE IF evnt.actions[k] = "Report"
            THEN EventReportActions(
                    Append(log, [event |-> evnt.id, kind |-> "Report",
                                 status |-> "none", adoption |-> "none"]),
                    evnt, k + 1)
            ELSE EventReportActions(log, evnt, k + 1)

\* The loop of lines 918-920 from the k-th entry on; fxs[k] is what the
\* change actions of the k-th entry's event do.
RECURSIVE ChangeLoop(_, _, _, _, _)
ChangeLoop(acc, events, entries, fxs, k) ==
    IF k > Len(entries)
        THEN acc
        ELSE ChangeLoop(EventChangeActions(acc, events[entries[k].event + 1],
                                           fxs[k], 1),
                        events, entries, fxs, k + 1)

\* The loop of lines 894-896.
RECURSIVE ReportLoop(_, _, _, _)
ReportLoop(log, events, entries, k) ==
    IF k > Len(entries)
        THEN log
        ELSE ReportLoop(EventReportActions(log, events[entries[k].event + 1], 1),
                        events, entries, k + 1)

\* performEventChangeActions that compares the versions with a snapshot
\* taken after the actions ran.
PerformChange_LateSnapshot(events, entries, fxs, versions, res, log) ==
    LET acc == ChangeLoop([versions |-> versions, result |-> ClearResult,
                           events |-> events, performed |-> log],
                          events, entries, fxs, 1)
    IN  [acc EXCEPT !.result.lowestModifiedStage =
            LowestStageDifference(acc.versions, acc.versions, 0)]

\* SystemGlobalSubsystem::performEventChangeActions past its assert: save
\* the stage versions, clear the result, run the actions, note the lowest
\* stage whose version changed.
PerformChange(events, entries, fxs, versions, res, log) ==
    LET acc == ChangeLoop([versions |-> versions, result |-> ClearResult,
                           events |-> events, performed |-> log],
                          events, entries, fxs, 1)
    IN  [acc EXCEPT !.result.lowestModifiedStage =
            LowestStageDifference(versions, acc.versions, 0)]

\* assert(!triggeredEvents.empty()) stops a debug build; a release build
\* (NDEBUG) has no such check.
AssertFails(entries, build) == build = "debug" /\ entries = << >>

\* A failed assert ended the program.
Aborted ==
    /\ call.op \in { "performEventReportActions", "performEventChangeActions" }
    /\ call.status = "PreconditionViolated"

\* The events of the dispatcher's systems beside the predefined ones: one
\* with a Report action, one with a Change action, one with both.
DispatchUserEvents ==
    << NewEvent(<< "Report" >>), NewEvent(<< "Change" >>),
       NewEvent(<< "Report", "Change" >>) >>

\* The triggeredEvents lists a caller may pass: up to MaxNoteLen distinct
\* events of the registry, each with the InitializationTrigger as its cause;
\* the empty list is among them.
DispatchInputs ==
    { [k \in 1..Len(q) |-> [event |-> q[k], causes |-> << 0 >>]] :
        q \in { e \in BSeq({ 0 } \cup (Len(ConstructedEvents)..(Len(m_events) - 1)),
                           MaxNoteLen) :
                    \A i, j \in 1..Len(e) : i # j => e[i] # e[j] } }

\* What the dispatcher could touch, as it was before the call.
DispatchPre ==
    [stageVersions |-> stageVersions, result |-> result,
     performed |-> performed, numEvents |-> Len(m_events),
     numEventTriggers |-> Len(m_triggers)]

\* SystemGlobalSubsystem::performEventReportActions, handed one of the lists
\* inputs, while fewer than limit calls were made.
performEventReportActionsOn(inputs, limit) ==
    /\ ~Aborted
    /\ calls < limit
    /\ \E entries \in inputs, build \in Builds :
        IF AssertFails(entries, build)
            THEN /\ call' = [op |-> "performEventReportActions",
                             entries |-> entries, build |-> build,
                             status |-> "PreconditionViolated",
                             pre |-> DispatchPre]
                 /\ UNCHANGED performed
            ELSE /\ performed' = ReportLoop(performed, m_events, entries, 1)
                 /\ call' = [op |-> "performEventReportActions",
                             entries |-> entries, build |-> build,
                             status |-> "ok", pre |-> DispatchPre]
    /\ calls' = calls + 1
    /\ UNCHANGED << stageVersions, result, registryVars, cacheVars, gutsVars,
                    collVars, noteVars, schedVars, activeTimers,
                    activeWitnesses >>

performEventReportActions ==
    performEventReportActionsOn(DispatchInputs, MaxCalls)

\* SystemGlobalSubsystem::performEventChangeActions, handed one of the lists
\* inputs, while fewer than limit calls were made; the change actions do
\* what effects says.
performEventChangeActionsWith(inputs, limit, effects) ==
    /\ ~Aborted
    /\ calls < limit
    /\ \E entries \in inputs, build \in Builds :
        IF AssertFails(entries, build)
            THEN /\ call' = [op |-> "performEventChangeActions",
                             entries |-> entries, build |-> build,
                             status |-> "PreconditionViolated",
                             pre |-> DispatchPre]
                 /\ UNCHANGED << stageVersions, result, performed, m_events,
                                 adopted >>
            ELSE \E fxs \in [1..Len(entries) -> effects] :
                    LET r == PerformChange(m_events, entries, fxs,
                                           stageVersions, result, performed)
                    IN  /\ stageVersions' = r.versions
                        /\ result' = r.result
                        /\ performed' = r.performed
                        /\ m_events' = r.events
                        /\ adopted' = [adopted EXCEPT !.events =
                                @ \o AdoptedOf(SubSeq(r.events, Len(m_events) + 1,
                                                      Len(r.events)))]
                        /\ call' = [op |-> "performEventChangeActions",
                                    entries |-> entries, build |-> build,
                                    status |-> "ok", pre |-> DispatchPre]
    /\ calls' = calls + 1
    /\ UNCHANGED << m_triggers, cacheVars, predefined, legacy, other,
                    collVars, noteVars, schedVars, activeTimers,
                    activeWitnesses >>

performEventChangeActionsOn(inputs, limit) ==
    performEventChangeActionsWith(inputs, limit, ChangeEffects)

performEventChangeActions ==
    performEventChangeActionsOn(DispatchInputs, MaxCalls)

\* performEventChangeActions whose actions may call adoptEvent.
performAdoptingChangeActions ==
    performEventChangeActionsWith(DispatchInputs, MaxCalls, AdoptingChangeEffects)

\* The dispatcher on a system that holds the three user events.
InitDispatch ==
    /\ m_events = adoptAllEvents(ConstructedEvents, DispatchUserEvents)
    /\ m_triggers = ConstructedTriggers
    /\ m_timers = << >>
    /\ m_witnesses = << >>
    /\ m_witnessesByStage = EmptyByStage
    /\ InitGuts
    /\ InitColl
    /\ InitOutputs

NextDispatch ==
    \/ performEventReportActions
    \/ performEventChangeActions

SpecDispatch == InitDispatch /\ [][NextDispatch]_vars

\* The dispatcher when change actions may adopt.
NextReenter ==
    \/ performEventReportActions
    \/ performAdoptingChangeActions

SpecReenter == InitDispatch /\ [][NextReenter]_vars

(***************************************************************************)
(*                  REGISTRY LOOKUPS AND LEGACY ADOPTERS                   *)
(***************************************************************************)

\* SystemGlobalSubsystem::hasEventTrigger past its argument check.
hasEventTrigger(triggers, id) ==
    isIndexInRange(id, Len(triggers)) /\ triggers[id + 1] # NullPtr

\* SystemGlobalSubsystem::hasEvent as called through the API: the argument
\* check of line 692 raises in a debug build.
hasEventChecked(events, id, build) ==
    IF build = "debug" /\ id = InvalidId
        THEN [status |-> "InvalidArgument", ret |-> FALSE]
        ELSE [status |-> "ok", ret |-> hasEvent(events, id)]

\* SystemGlobalSubsystem::hasEventTrigger as called through the API.
hasEventTriggerChecked(triggers, id, build) ==
    IF build = "debug" /\ id = InvalidId
        THEN [status |-> "InvalidArgument", ret |-> FALSE]
        ELSE [status |-> "ok", ret |-> hasEventTrigger(triggers, id)]

\* getEvent without the index check: whatever lies past the array is
\* returned.
getEvent_NoIndexCheck(events, id, build) ==
    IF build = "debug" /\ id = InvalidId
        THEN [status |-> "InvalidArgument", ret |-> NullPtr]
        ELSE IF ~isIndexInRange(id, Len(events))
            THEN [status |-> "ok", ret |-> NullPtr]
            ELSE IF events[id + 1] = NullPtr
                THEN [status |-> "Missing", ret |-> NullPtr]
                ELSE [status |-> "ok", ret |-> events[id + 1]]

\* SystemGlobalSubsystem::getEvent: SimTK_APIARGCHECK (debug builds),
\* SimTK_INDEXCHECK_ALWAYS, SimTK_ERRCHK1_ALWAYS, then the object.
getEvent(events, id, build) ==
    IF build = "debug" /\ id = InvalidId
        THEN [status |-> "InvalidArgument", ret |-> NullPtr]
        ELSE IF ~isIndexInRange(id, Len(events))
            THEN [status |-> "InvalidIndex", ret |-> NullPtr]
            ELSE IF events[id + 1] = NullPtr
                THEN [status |-> "Missing", ret |-> NullPtr]
                ELSE [status |-> "ok", ret |-> events[id + 1]]

\* SystemGlobalSubsystem::updEvent: the same checks on the same array.
updEvent(events, id, build) == getEvent(events, id, build)

\* SystemGlobalSubsystem::getEventTrigger
getEventTrigger(triggers, id, build) ==
    IF build = "debug" /\ id = InvalidId
        THEN [status |-> "InvalidArgument", ret |-> NullPtr]
        ELSE IF ~isIndexInRange(id, Len(triggers))
            THEN [status |-> "InvalidIndex", ret |-> NullPtr]
            ELSE IF triggers[id + 1] = NullPtr
                THEN [status |-> "Missing", ret |-> NullPtr]
                ELSE [status |-> "ok", ret |-> triggers[id + 1]]

\* SystemGlobalSubsystem::updEventTrigger
updEventTrigger(triggers, id, build) == getEventTrigger(triggers, id, build)

\* Ids a caller may pass to a lookup: the invalid sentinel, the ids in use
\* and two ids past the end.
LookupIds(things) == { InvalidId } \cup (0..(Len(things) + 1))

\* The registries and everything else a lookup could touch.
Snapshot ==
    [events |-> m_events, triggers |-> m_triggers, timers |-> m_timers,
     witnesses |-> m_witnesses, byStage |-> m_witnessesByStage,
     predefined |-> predefined, legacy |-> legacy]

\* A call of hasEvent
hasEventCall ==
    /\ \E id \in LookupIds(m_events), build \in Builds :
        LET r == hasEventChecked(m_events, id, build)
        IN  call' = [op |-> "hasEvent", id |-> id, build |-> build,
                     status |-> r.status, ret |-> r.ret, pre |-> Snapshot]
    /\ UNCHANGED << registryVars, cacheVars, gutsVars, dispatchVars, collVars,
                    noteVars, schedVars, activeVars >>

\* A call of hasEventTrigger
hasEventTriggerCall ==
    /\ \E id \in LookupIds(m_triggers), build \in Builds :
        LET r == hasEventTriggerChecked(m_triggers, id, build)
        IN  call' = [op |-> "hasEventTrigger", id |-> id, build |-> build,
                     status |-> r.status, ret |-> r.ret, pre |-> Snapshot]
    /\ UNCHANGED << registryVars, cacheVars, gutsVars, dispatchVars, collVars,
                    noteVars, schedVars, activeVars >>

\* A call of getEvent or of updEvent
getEventCall ==
    /\ \E id \in LookupIds(m_events), build \in Builds,
          op \in { "getEvent", "updEvent" } :
        LET r == IF op = "getEvent" THEN getEvent(m_events, id, build)
                                    ELSE updEvent(m_events, id, build)
        IN  call' = [op |-> op, id |-> id, build |-> build,
                     status |-> r.status, ret |-> r.ret, pre |-> Snapshot]
    /\ UNCHANGED << registryVars, cacheVars, gutsVars, dispatchVars, collVars,
                    noteVars, schedVars, activeVars >>

\* A call of getEventTrigger or of updEventTrigger
getEventTriggerCall ==
    /\ \E id \in LookupIds(m_triggers), build \in Builds,
          op \in { "getEventTrigger", "updEventTrigger" } :
        LET r == IF op = "getEventTrigger"
                    THEN getEventTrigger(m_triggers, id, build)
                    ELSE updEventTrigger(m_triggers, id, build)
        IN  call' = [op |-> op, id |-> id, build |-> build,
                     status |-> r.status, ret |-> r.ret, pre |-> Snapshot]
    /\ UNCHANGED << registryVars, cacheVars, gutsVars, dispatchVars, collVars,
                    noteVars, schedVars, activeVars >>

\* The direction derivation with "neither" taken as both.
LegacyDirection_NeitherIsBoth(rising, falling) ==
    IF rising = falling THEN "RisingAndFalling"
    ELSE IF rising THEN "Rising" ELSE "Falling"

\* The witness direction derived from the trigger info (lines 564-567 and
\* 619-622): rising ? (falling ? RisingAndFalling : Rising) : Falling.
LegacyDirection(rising, falling) ==
    IF rising
        THEN (IF falling THEN "RisingAndFalling" ELSE "Rising")
        ELSE "Falling"

\* The legacy trigger built without addEvent(eid).
LegacyTrigger_NoAddEvent(triggerKind, eid, fireAt, rising, falling) ==
    IF triggerKind = "Timer"
        THEN NewTrigger("Timer", << >>, fireAt)
        ELSE [NewTrigger("Witness", << >>, Infinity) EXCEPT
                !.direction = LegacyDirection(rising, falling)]

\* The timer (lines 539-540, 594-595) or witness (lines 569-570, 624-625)
\* a legacy adopter builds: it lists the event id eid; a timer fires when
\* the handler's getNextEventTime says, a witness has the derived direction.
LegacyTrigger(triggerKind, eid, fireAt, rising, falling) ==
    IF triggerKind = "Timer"
        THEN NewTrigger("Timer", << eid >>, fireAt)
        ELSE [NewTrigger("Witness", << eid >>, Infinity) EXCEPT
                !.direction = LegacyDirection(rising, falling)]

\* The legacy adopters (lines 532-636): an Event carrying one action of the
\* given kind is adopted, then a timer or witness that lists the id the
\* event got; the handler records both ids and joins its Guts array. The
\* handler object decides the timer's next time (one of fireTimes) or the
\* trigger info's rising and falling flags.
adoptLegacyOf(op, array, actionKind, triggerKind, fireTimes) ==
    /\ Len(m_events) < Len(ConstructedEvents) + MaxUserTriggers
    /\ Len(m_triggers) < Len(ConstructedTriggers) + MaxUserTriggers
    /\ \E fireAt \in (IF triggerKind = "Timer" THEN fireTimes ELSE { Infinity }),
          rising, falling \in (IF triggerKind = "Witness" THEN BOOLEAN ELSE { FALSE }) :
       LET e == adoptEventCall(m_events, NewEvent(<< actionKind >>))
           t == adoptEventTriggerCall(m_triggers,
                    LegacyTrigger(triggerKind, e.ret, fireAt, rising, falling))
       IN  /\ m_events' = e.events
           /\ m_triggers' = t.triggers
           /\ legacy' = [legacy EXCEPT ![array] =
                            Append(@, [m_eventId |-> e.ret,
                                       m_triggerId |-> t.ret])]
           /\ adopted' =
                [events |-> Append(adopted.events,
                                [ret |-> e.ret, obj |-> Last(e.events)]),
                 triggers |-> Append(adopted.triggers,
                                [ret |-> t.ret, obj |-> Last(t.triggers)])]
           /\ call' = [op |-> op, array |-> array, status |-> "ok",
                       rising |-> rising, falling |-> falling,
                       pre |-> [events |-> m_events, triggers |-> m_triggers]]
    /\ UNCHANGED << predefined, other, cacheVars, dispatchVars, collVars, noteVars,
                    schedVars, activeVars >>

adoptLegacy(op, array, actionKind, triggerKind) ==
    adoptLegacyOf(op, array, actionKind, triggerKind, { 1 })

\* adoptEventHandler(ScheduledEventHandler*)
adoptScheduledEventHandler ==
    adoptLegacy("adoptEventHandler", "scheduledEventHandlers", "Change", "Timer")

\* adoptEventHandler(TriggeredEventHandler*)
adoptTriggeredEventHandler ==
    adoptLegacy("adoptEventHandler", "triggeredEventHandlers", "Change",
                "Witness")

\* adoptEventReporter(ScheduledEventReporter*)
adoptScheduledEventReporter ==
    adoptLegacy("adoptEventReporter", "scheduledEventReporters", "Report",
                "Timer")

\* adoptEventReporter(TriggeredEventReporter*)
adoptTriggeredEventReporter ==
    adoptLegacy("adoptEventReporter", "triggeredEventReporters", "Report",
                "Witness")

\* The registries of a constructed system under direct and legacy adoptions.
NextReg ==
    \/ adoptEventUpTo(MaxUserTriggers)
    \/ adoptEventTriggerOf(TriggerChoices, MaxUserTriggers)
    \/ adoptScheduledEventHandler
    \/ adoptTriggeredEventHandler
    \/ adoptScheduledEventReporter
    \/ adoptTriggeredEventReporter

SpecReg == Init /\ [][NextReg]_vars

\* Lookups on a system built by the constructor and by adoptEvent /
\* adoptEventTrigger calls.
InitLookup ==
    /\ \E u \in 0..MaxUserEvents :
        m_events = adoptAllEvents(ConstructedEvents,
                        [k \in 1..u |-> NewEvent(<< "Report" >>)])
    /\ \E kinds \in BSeq({ "Timer", "Witness", "Other" }, MaxUserTriggers) :
        m_triggers = adoptAllTriggers(ConstructedTriggers,
                        [k \in 1..Len(kinds) |->
                            NewTrigger(kinds[k], << 0 >>, Infinity)])
    /\ m_timers = << >>
    /\ m_witnesses = << >>
    /\ m_witnessesByStage = EmptyByStage
    /\ InitGuts
    /\ InitColl
    /\ InitOutputs

NextLookup ==
    \/ hasEventCall
    \/ hasEventTriggerCall
    \/ getEventCall
    \/ getEventTriggerCall

SpecLookup == InitLookup /\ [][NextLookup]_vars

(***************************************************************************)
(*                        NOTE EVENT OCCURRENCE                            *)
(***************************************************************************)

\* The position (1-based) of the first output entry for the event, 0 if none
\* (the std::find_if of line 870; entries hold a pointer to the registry's
\* Event, which the model names by its id).
FindEntry(te, eid) ==
    IF \E i \in 1..Len(te) : te[i].event = eid
        THEN CHOOSE i \in 1..Len(te) :
                /\ te[i].event = eid
                /\ \A j \in 1..(i - 1) : te[j].event # eid
        ELSE 0

\* The inner loop body without the de-duplication of ignored ids.
NoteEventId_NoIgnoredDedup(acc, tid, eid) ==
    IF ~hasEvent(acc.events, eid)
        THEN [acc EXCEPT !.ig = Append(@, eid)]
        ELSE LET e == FindEntry(acc.te, eid)
             IN  IF e = 0
                    THEN [acc EXCEPT !.events[eid + 1].occ = @ + 1,
                                     !.te = Append(@, [event |-> eid,
                                                       causes |-> << tid >>])]
                    ELSE [acc EXCEPT !.te[e].causes = Append(@, tid)]

\* The inner loop body bumping an event's counter only when the event never
\* occurred before.
NoteEventId_BumpFirstEver(acc, tid, eid) ==
    IF ~hasEvent(acc.events, eid)
        THEN IF IsIn(eid, acc.ig) THEN acc
             ELSE [acc EXCEPT !.ig = Append(@, eid)]
        ELSE LET e == FindEntry(acc.te, eid)
             IN  IF e = 0
                    THEN [acc EXCEPT !.events[eid + 1].occ =
                                        IF @ = 0 THEN 1 ELSE @,
                                     !.te = Append(@, [event |-> eid,
                                                       causes |-> << tid >>])]
                    ELSE [acc EXCEPT !.te[e].causes = Append(@, tid)]

\* The inner loop body bumping the event's counter once per cause.
NoteEventId_BumpPerCause(acc, tid, eid) ==
    IF ~hasEvent(acc.events, eid)
        THEN IF IsIn(eid, acc.ig) THEN acc
             ELSE [acc EXCEPT !.ig = Append(@, eid)]
        ELSE LET e == FindEntry(acc.te, eid)
             IN  IF e = 0
                    THEN [acc EXCEPT !.events[eid + 1].occ = @ + 1,
                                     !.te = Append(@, [event |-> eid,
                                                       causes |-> << tid >>])]
                    ELSE [acc EXCEPT !.events[eid + 1].occ = @ + 1,
                                     !.te[e].causes = Append(@, tid)]

\* The inner loop body recording only the trigger that created an entry.
NoteEventId_FirstCauseOnly(acc, tid, eid) ==
    IF ~hasEvent(acc.events, eid)
        THEN IF IsIn(eid, acc.ig) THEN acc
             ELSE [acc EXCEPT !.ig = Append(@, eid)]
        ELSE LET e == FindEntry(acc.te, eid)
             IN  IF e = 0
                    THEN [acc EXCEPT !.events[eid + 1].occ = @ + 1,
                                     !.te = Append(@, [event |-> eid,
                                                       causes |-> << tid >>])]
                    ELSE acc

\* noteEventOccurrence, body of the inner loop (lines 858-880) for trigger
\* tid and the EventId eid it lists. acc holds the registries with their
\* mutable counters and the two output arrays.
NoteEventId(acc, tid, eid) ==
    IF ~hasEvent(acc.events, eid)
        THEN IF IsIn(eid, acc.ig) THEN acc
             ELSE [acc EXCEPT !.ig = Append(@, eid)]
        ELSE LET e == FindEntry(acc.te, eid)
             IN  IF e = 0
                    THEN [acc EXCEPT !.events[eid + 1].occ = @ + 1,
                                     !.te = Append(@, [event |-> eid,
                                                       causes |-> << tid >>])]
                    ELSE [acc EXCEPT !.te[e].causes = Append(@, tid)]

\* noteEventOccurrence, the inner loop over trigger->getEventId(i), i >= k-1.
RECURSIVE NoteEventIds(_, _, _)
NoteEventIds(acc, tid, k) ==
    IF k > Len(acc.triggers[tid + 1].eventIds)
        THEN acc
        ELSE NoteEventIds(NoteEventId(acc, tid, acc.triggers[tid + 1].eventIds[k]),
                          tid, k + 1)

\* noteEventOccurrence, the outer loop: bump the trigger's counter, then its ids.
RECURSIVE NoteTriggers(_, _, _)
NoteTriggers(acc, ts, k) ==
    IF k > Len(ts)
        THEN acc
        ELSE NoteTriggers(
                NoteEventIds([acc EXCEPT !.triggers[ts[k] + 1].occ = @ + 1],
                             ts[k], 1),
                ts, k + 1)

\* The triggers an integrator reports: the InitializationTrigger and the
\* user triggers.
NoteTriggerIds ==
    { 0 } \cup (Len(ConstructedTriggers)..(Len(m_triggers) - 1))

\* The trigger lists an integrator may pass: distinct triggers of the
\* registry (the triggers are assumed unique, line 836).
NoteInputs ==
    { ts \in BSeq(NoteTriggerIds, MaxNoteLen) :
        \A i, j \in 1..Len(ts) : i # j => ts[i] # ts[j] }

\* SystemGlobalSubsystem::noteEventOccurrence. The caller passes either
\* fresh empty output arrays or the arrays an earlier call appended to.
noteEventOccurrenceUpTo(limit) ==
    /\ calls < limit
    /\ \E ts \in NoteInputs, fresh \in BOOLEAN :
        /\ ~fresh => (triggeredEvents # << >> \/ ignoredEventIds # << >>)
        /\ LET pre == [events |-> m_events, triggers |-> m_triggers,
                       te |-> IF fresh THEN << >> ELSE triggeredEvents,
                       ig |-> IF fresh THEN << >> ELSE ignoredEventIds]
               post == NoteTriggers(pre, ts, 1)
           IN  /\ m_events' = post.events
               /\ m_triggers' = post.triggers
               /\ triggeredEvents' = post.te
               /\ ignoredEventIds' = post.ig
               /\ call' = [op |-> "noteEventOccurrence", triggers |-> ts,
                           pre |-> pre]
    /\ calls' = calls + 1
    /\ UNCHANGED << gutsVars, dispatchVars, cacheVars, collVars, schedVars, activeTimers,
                    activeWitnesses >>

noteEventOccurrence == noteEventOccurrenceUpTo(MaxCalls)

\* EventIds the user triggers of the resolver's registries may list: a
\* predefined event, the user events, and at least one id never adopted.
NoteIdPool == { 0 } \cup (Len(ConstructedEvents)..(Len(ConstructedEvents) + MaxUserEvents))

\* The resolver on a system built by adoptEvent/adoptEventTrigger calls.
InitNote ==
    /\ \E u \in 0..MaxUserEvents :
        m_events = adoptAllEvents(ConstructedEvents,
                        [k \in 1..u |-> NewEvent(<< "Report" >>)])
    /\ \E lists \in BSeq(BSeq(NoteIdPool, MaxEventIds), MaxUserTriggers) :
        m_triggers = adoptAllTriggers(ConstructedTriggers,
                        [k \in 1..Len(lists) |->
                            NewTrigger("Witness", lists[k], Infinity)])
    /\ m_timers = << >>
    /\ m_witnesses = << >>
    /\ m_witnessesByStage = EmptyByStage
    /\ InitGuts
    /\ InitColl
    /\ InitOutputs

NextNote ==
    \/ noteEventOccurrence

SpecNote == InitNote /\ [][NextNote]_vars

(***************************************************************************)
(*                         COPYING THE SYSTEM                              *)
(***************************************************************************)

\* Copying an Array_<ClonePtr<T>> (the members of lines 211-212, copied by
\* the Guts copy constructor that cloneImpl calls): each ClonePtr clones
\* the object it points to, so the copy holds objects with the same
\* contents and shares none with the source. shared is the number of
\* leading slots whose object is the source's own.
ClonePtrCopy(things) ==
    [things |-> things, shared |-> 0]

\* A pointer to the trigger with the given id in the trigger registry of
\* one of the two systems.
TriggerPtr(which, id) == [owner |-> which, id |-> id]

\* Copying an Array_<EventTimer*> or Array_<EventWitness*> (the members of
\* lines 235 and 239): the pointers are copied as they are, so each still
\* points at the trigger of the source it pointed at.
RawPtrCopy(ids) ==
    [k \in 1..Len(ids) |-> TriggerPtr("original", ids[k])]

\* A copy of the Guts whose registries point at the source's objects.
CopyGuts_SharedObjects(events, triggers, timers, witnesses) ==
    [copied |-> TRUE, events |-> events, triggers |-> triggers,
     sharedEvents |-> Len(events), sharedTriggers |-> Len(triggers),
     timers |-> RawPtrCopy(timers), witnesses |-> RawPtrCopy(witnesses)]

\* new Guts(*this) (line 146): Guts declares no copy constructor, so the
\* implicit one copies every member with that member's own copy
\* constructor: m_events and m_triggers through ClonePtr, the cache arrays
\* m_timers and m_witnesses as arrays of raw pointers. (The by-stage arrays
\* hold indices, not pointers.)
CopyGuts(events, triggers, timers, witnesses) ==
    LET e == ClonePtrCopy(events)
        t == ClonePtrCopy(triggers)
    IN  [copied |-> TRUE, events |-> e.things, triggers |-> t.things,
         sharedEvents |-> e.shared, sharedTriggers |-> t.shared,
         timers |-> RawPtrCopy(timers), witnesses |-> RawPtrCopy(witnesses)]

\* Guts::cloneImpl
cloneImpl ==
    /\ ~other.copied
    /\ other' = CopyGuts(m_events, m_triggers, m_timers, m_witnesses)
    /\ call' = [op |-> "cloneImpl"]
    /\ UNCHANGED << predefined, legacy, adopted, registryVars, cacheVars,
                    dispatchVars, collVars, noteVars, schedVars, activeVars >>

\* The two systems once a copy exists, the original alone before.
Systems == IF other.copied THEN { "original", "copy" } ELSE { "original" }

\* The registries of one of the systems.
RegistriesOf(which) ==
    IF which = "original"
        THEN [events |-> m_events, triggers |-> m_triggers]
        ELSE [events |-> other.events, triggers |-> other.triggers]

\* A registry after an operation wrote to the objects of the other
\* system's registry mine: a slot that points at the same object shows what
\* was written, every other slot is as it was.
SeenThrough(theirs, mine, shared) ==
    [k \in 1..Len(theirs) |->
        IF k <= shared /\ k <= Len(mine) THEN mine[k] ELSE theirs[k]]

\* An operation on one system left its registries as post.
RegistriesBecome(which, post) ==
    LET theirs == RegistriesOf(IF which = "original" THEN "copy" ELSE "original")
        seenEvents == SeenThrough(theirs.events, post.events, other.sharedEvents)
        seenTriggers == SeenThrough(theirs.triggers, post.triggers,
                                    other.sharedTriggers)
    IN  IF which = "original"
            THEN /\ m_events' = post.events
                 /\ m_triggers' = post.triggers
                 /\ other' = IF other.copied
                        THEN [other EXCEPT !.events = seenEvents,
                                           !.triggers = seenTriggers]
                        ELSE other
            ELSE /\ m_events' = seenEvents
                 /\ m_triggers' = seenTriggers
                 /\ other' = [other EXCEPT !.events = post.events,
                                           !.triggers = post.triggers]

\* adoptEvent called on one of the systems with an Event that has a Report
\* action.
adoptEventIn(which) ==
    /\ Len(RegistriesOf(which).events) < Len(ConstructedEvents) + MaxUserEvents
    /\ LET mine == RegistriesOf(which)
            c == adoptEventCall(mine.events, NewEvent(<< "Report" >>))
        IN  /\ RegistriesBecome(which, [mine EXCEPT !.events = c.events])
            /\ adopted' = IF which = "original"
                    THEN [adopted EXCEPT !.events =
                            Append(@, [ret |-> c.ret, obj |-> Last(c.events)])]
                    ELSE adopted
            /\ call' = [op |-> "adoptEvent", system |-> which,
                        status |-> c.status, ret |-> c.ret,
                        pre |-> [original |-> RegistriesOf("original"),
                                 copy |-> RegistriesOf("copy")]]
    /\ UNCHANGED << predefined, legacy, cacheVars, dispatchVars, collVars,
                    noteVars, schedVars, activeVars >>

\* adoptEventTrigger called on one of the systems with a witness that lists
\* the id of the first user event.
adoptEventTriggerIn(which) ==
    /\ Len(RegistriesOf(which).triggers) < Len(ConstructedTriggers) + MaxUserTriggers
    /\ LET mine == RegistriesOf(which)
            c == adoptEventTriggerCall(mine.triggers,
                        NewTrigger("Witness", << Len(ConstructedEvents) >>,
                                   Infinity))
        IN  /\ RegistriesBecome(which, [mine EXCEPT !.triggers = c.triggers])
            /\ adopted' = IF which = "original"
                    THEN [adopted EXCEPT !.triggers =
                            Append(@, [ret |-> c.ret, obj |-> Last(c.triggers)])]
                    ELSE adopted
            /\ call' = [op |-> "adoptEventTrigger", system |-> which,
                        status |-> c.status, ret |-> c.ret,
                        pre |-> [original |-> RegistriesOf("original"),
                                 copy |-> RegistriesOf("copy")]]
    /\ UNCHANGED << predefined, legacy, cacheVars, dispatchVars, collVars,
                    noteVars, schedVars, activeVars >>

\* noteEventOccurrence called on one of the systems with user triggers of
\* that system's registry and fresh output arrays.
noteEventOccurrenceIn(which) ==
    /\ calls < MaxCalls
    /\ \E ts \in { q \in BSeq(Len(ConstructedTriggers)..
                                (Len(RegistriesOf(which).triggers) - 1),
                                MaxNoteLen) :
                        /\ q # << >>
                        /\ \A i, j \in 1..Len(q) : i # j => q[i] # q[j] } :
        LET mine == RegistriesOf(which)
            post == NoteTriggers([events |-> mine.events,
                                  triggers |-> mine.triggers,
                                  te |-> << >>, ig |-> << >>], ts, 1)
        IN  /\ RegistriesBecome(which, [events |-> post.events,
                                        triggers |-> post.triggers])
            /\ triggeredEvents' = post.te
            /\ ignoredEventIds' = post.ig
            /\ call' = [op |-> "noteEventOccurrence", system |-> which,
                        triggers |-> ts,
                        pre |-> [original |-> RegistriesOf("original"),
                                 copy |-> RegistriesOf("copy")]]
    /\ calls' = calls + 1
    /\ UNCHANGED << predefined, legacy, adopted, cacheVars, dispatchVars,
                    collVars, schedVars, activeTimers, activeWitnesses >>

\* A constructed system, copied at some point, and the operations that
\* write to the registries, called on either system.
NextCopy ==
    \/ cloneImpl
    \/ \E which \in Systems :
        \/ adoptEventIn(which)
        \/ adoptEventTriggerIn(which)
        \/ noteEventOccurrenceIn(which)

SpecCopy == Init /\ [][NextCopy]_vars

\* realizeTopology run on the copy: its cache is cleared and rebuilt from
\* its own trigger registry.
realizeTopologyOfCopy ==
    /\ other.copied
    /\ LET c == RealizedCache(other.triggers, << >>, << >>, EmptyByStage)
       IN  other' = [other EXCEPT
                !.timers = [k \in 1..Len(c.timers) |->
                                TriggerPtr("copy", c.timers[k])],
                !.witnesses = [k \in 1..Len(c.witnesses) |->
                                TriggerPtr("copy", c.witnesses[k])],
                !.triggers = IndexedTriggers(other.triggers, c)]
    /\ call' = [op |-> "realizeTopology", system |-> "copy",
                pre |-> [numTimers |-> Len(other.timers),
                         numWitnesses |-> Len(other.witnesses)]]
    /\ UNCHANGED << predefined, legacy, adopted, registryVars, cacheVars,
                    dispatchVars, collVars, noteVars, schedVars, activeVars >>

\* findActiveEventTimers called on the copy: its cached timers are assigned
\* to the caller's array.
findActiveEventTimersOfCopy ==
    /\ other.copied
    /\ activeTimers' = other.timers
    /\ call' = [op |-> "findActiveEventTimers", system |-> "copy"]
    /\ UNCHANGED << gutsVars, dispatchVars, registryVars, cacheVars, collVars,
                    noteVars, schedVars, activeWitnesses, calls >>

\* findActiveEventWitnesses called on the copy.
findActiveEventWitnessesOfCopy ==
    /\ other.copied
    /\ activeWitnesses' = other.witnesses
    /\ call' = [op |-> "findActiveEventWitnesses", system |-> "copy"]
    /\ UNCHANGED << gutsVars, dispatchVars, registryVars, cacheVars, collVars,
                    noteVars, schedVars, activeTimers, calls >>

\* A system that adopts triggers and realizes its topology, is copied at
\* some point, and the copy's cache and active-set queries.
NextCopyCache ==
    \/ adoptEventTriggerOf(TriggerChoices, MaxUserTriggers)
    \/ realizeTopology
    \/ cloneImpl
    \/ realizeTopologyOfCopy
    \/ findActiveEventTimersOfCopy
    \/ findActiveEventWitnessesOfCopy

SpecCopyCache == Init /\ [][NextCopyCache]_vars

(***************************************************************************)
(*             AN EVENT STEP: OCCURRENCE, THEN THE TWO PASSES              *)
(***************************************************************************)

\* The triggers of the event step's system beside the predefined ones:
\* witnesses causing the user events 4, 6, and 5 with 6.
StepUserTriggers ==
    << NewTrigger("Witness", << 4 >>, Infinity),
       NewTrigger("Witness", << 6 >>, Infinity),
       NewTrigger("Witness", << 5, 6 >>, Infinity) >>

\* noteEventOccurrence as a time stepper calls it during a step.
stepNoteEventOccurrence ==
    /\ ~Aborted
    /\ noteEventOccurrenceUpTo(MaxSteps)

\* performEventReportActions handed the caller's triggered-events array.
stepPerformEventReportActions ==
    performEventReportActionsOn({ triggeredEvents }, MaxSteps)

\* performEventChangeActions handed the caller's triggered-events array.
stepPerformEventChangeActions ==
    performEventChangeActionsOn({ triggeredEvents }, MaxSteps)

\* A system with the three user events and the three user triggers.
InitStep ==
    /\ m_events = adoptAllEvents(ConstructedEvents, DispatchUserEvents)
    /\ m_triggers = adoptAllTriggers(ConstructedTriggers, StepUserTriggers)
    /\ m_timers = << >>
    /\ m_witnesses = << >>
    /\ m_witnessesByStage = EmptyByStage
    /\ InitGuts
    /\ InitColl
    /\ InitOutputs

NextStep ==
    \/ stepNoteEventOccurrence
    \/ stepPerformEventReportActions
    \/ stepPerformEventChangeActions

SpecStep == InitStep /\ [][NextStep]_vars

(***************************************************************************)
(*                   FIND NEXT SCHEDULED EVENT TIMES                       *)
(***************************************************************************)

\* Event::hasChangeAction: some action of the event is a Change action.
hasChangeAction(e) == \E i \in 1..Len(e.actions) : e.actions[i] = "Change"

\* EventTimer::calcTimeOfNextTrigger of a timer that triggers once, at
\* fireAt: that instant while it lies after the last trigger, else +infinity
\* (no further trigger).
calcTimeOfNextTrigger(timer, timeOfLastTrigger) ==
    IF timeOfLastTrigger < timer.fireAt THEN timer.fireAt ELSE Infinity

\* The loop finding no Change action, whatever the events carry.
ClassifyTimer_NeverChange(events, eventIds, k) == "report"

\* The loop of lines 795-800 over the timer's event ids from position k:
\* "change" when an event with a Change action is found, "report" when the
\* list is exhausted, "throw" when getEvent's index check fails first.
RECURSIVE ClassifyTimer(_, _, _)
ClassifyTimer(events, eventIds, k) ==
    IF k > Len(eventIds)
        THEN "report"
        ELSE IF ~(eventIds[k] >= 0 /\ eventIds[k] < Len(events))
            THEN "throw"
            ELSE IF hasChangeAction(events[eventIds[k] + 1])
                THEN "change"
                ELSE ClassifyTimer(events, eventIds, k + 1)

\* The three-way comparison with a new winner appended to the old winners.
Candidate_NoClear(t, timerp, timeOfNext, timers) ==
    IF t > timeOfNext
        THEN [time |-> timeOfNext, timers |-> timers]
        ELSE IF t < timeOfNext
            THEN [time |-> t, timers |-> Append(timers, timerp)]
            ELSE [time |-> timeOfNext, timers |-> Append(timers, timerp)]

\* Lines 804-812 (and 816-824): a later time is not interesting, an earlier
\* one forgets the previous earliest, and the timer joins the list.
Candidate(t, timerp, timeOfNext, timers) ==
    IF t > timeOfNext
        THEN [time |-> timeOfNext, timers |-> timers]
        ELSE IF t < timeOfNext
            THEN [time |-> t, timers |-> << timerp >>]
            ELSE [time |-> timeOfNext, timers |-> Append(timers, timerp)]

\* The loop body evaluating every timer against timeOfLastReport.
SchedTimer_ReportTimeOnly(acc, triggers, events, timerp, tLastReport, tLastChange) ==
    LET timer == triggers[timerp + 1]
        class == ClassifyTimer(events, timer.eventIds, 1)
    IN  IF class = "throw"
            THEN [acc EXCEPT !.status = "IndexOutOfRange"]
            ELSE IF class = "change"
                THEN LET c == Candidate(calcTimeOfNextTrigger(timer, tLastReport),
                                        timerp, acc.tNextChange, acc.changeTimers)
                     IN  [acc EXCEPT !.tNextChange = c.time,
                                     !.changeTimers = c.timers]
                ELSE LET c == Candidate(calcTimeOfNextTrigger(timer, tLastReport),
                                        timerp, acc.tNextReport, acc.reportTimers)
                     IN  [acc EXCEPT !.tNextReport = c.time,
                                     !.reportTimers = c.timers]

\* Body of the loop of lines 793-826 for the cached timer timerp.
SchedTimer(acc, triggers, events, timerp, tLastReport, tLastChange) ==
    LET timer == triggers[timerp + 1]
        class == ClassifyTimer(events, timer.eventIds, 1)
    IN  IF class = "throw"
            THEN [acc EXCEPT !.status = "IndexOutOfRange"]
            ELSE IF class = "change"
                THEN LET c == Candidate(calcTimeOfNextTrigger(timer, tLastChange),
                                        timerp, acc.tNextChange, acc.changeTimers)
                     IN  [acc EXCEPT !.tNextChange = c.time,
                                     !.changeTimers = c.timers]
                ELSE LET c == Candidate(calcTimeOfNextTrigger(timer, tLastReport),
                                        timerp, acc.tNextReport, acc.reportTimers)
                     IN  [acc EXCEPT !.tNextReport = c.time,
                                     !.reportTimers = c.timers]

\* The loop of line 793 over guts.m_timers from position k; an exception
\* leaves the outputs as they are at that moment.
RECURSIVE SchedTimers(_, _, _, _, _, _, _)
SchedTimers(acc, triggers, events, timers, k, tLastReport, tLastChange) ==
    IF k > Len(timers) \/ acc.status # "ok"
        THEN acc
        ELSE SchedTimers(SchedTimer(acc, triggers, events, timers[k],
                                    tLastReport, tLastChange),
                         triggers, events, timers, k + 1, tLastReport,
                         tLastChange)

\* Lines 790-791: both times +infinity, both lists cleared.
SchedStart(oldTNextReport, oldReportTimers, oldTNextChange, oldChangeTimers) ==
    [tNextReport |-> Infinity, reportTimers |-> << >>,
     tNextChange |-> Infinity, changeTimers |-> << >>,
     status |-> "ok"]

\* SystemGlobalSubsystem::findNextScheduledEventTimes
findNextScheduledEventTimes ==
    /\ calls < MaxCalls
    /\ \E tLastReport \in 0..(MaxTime - 1), tLastChange \in 0..(MaxTime - 1) :
        LET start == SchedStart(timeOfNextReport, reportTimers,
                                timeOfNextChange, changeTimers)
            r == SchedTimers(start, m_triggers, m_events, m_timers, 1,
                             tLastReport, tLastChange)
        IN  /\ timeOfNextReport' = r.tNextReport
            /\ reportTimers' = r.reportTimers
            /\ timeOfNextChange' = r.tNextChange
            /\ changeTimers' = r.changeTimers
            /\ call' = [op |-> "findNextScheduledEventTimes",
                        timeOfLastReport |-> tLastReport,
                        timeOfLastChange |-> tLastChange,
                        status |-> r.status,
                        pre |-> [reportTimers |-> reportTimers,
                                 changeTimers |-> changeTimers]]
    /\ calls' = calls + 1
    /\ UNCHANGED << gutsVars, dispatchVars, registryVars, cacheVars, collVars, noteVars,
                    activeTimers, activeWitnesses >>

\* The user events of the scheduler's systems: ids 4 and 5. Id 6 is unknown.
SchedUserEvents ==
    << NewEvent(<< "Report" >>), NewEvent(<< "Report", "Change" >>) >>
SchedEventIds ==
    Len(ConstructedEvents)..(Len(ConstructedEvents) + Len(SchedUserEvents))
FireTimes == (1..MaxTime) \cup { Infinity }

\* User triggers: any timer listing up to MaxEventIds ids, or a witness.
SchedTriggerChoices ==
    { NewTrigger("Timer", ids, at) :
        ids \in BSeq(SchedEventIds, MaxEventIds), at \in FireTimes }
    \cup { NewTrigger("Witness", << Len(ConstructedEvents) >>, Infinity) }

\* Timers that each cause one of the two user events.
SimpleTimerChoices ==
    { NewTrigger("Timer", << e >>, at) :
        e \in { Len(ConstructedEvents), Len(ConstructedEvents) + 1 },
        at \in FireTimes }

\* The scheduler on a system built by adoptEvent/adoptEventTrigger calls:
\* up to MaxUserTriggers user triggers of any choice, or a larger population
\* of up to MaxSchedTimers simple timers.
InitSched ==
    /\ m_events = adoptAllEvents(ConstructedEvents, SchedUserEvents)
    /\ \E news \in BSeq(SchedTriggerChoices, MaxUserTriggers)
                    \cup BSeq(SimpleTimerChoices, MaxSchedTimers) :
        m_triggers = adoptAllTriggers(ConstructedTriggers, news)
    /\ m_timers = << >>
    /\ m_witnesses = << >>
    /\ m_witnessesByStage = EmptyByStage
    /\ InitGuts
    /\ InitColl
    /\ InitOutputs

NextSched ==
    \/ realizeTopology
    \/ findNextScheduledEventTimes

SpecSched == InitSched /\ [][NextSched]_vars

\* adoptEventHandler(ScheduledEventHandler*) with a handler whose
\* getNextEventTime names one of FireTimes.
adoptScheduledEventHandlerAtAnyTime ==
    adoptLegacyOf("adoptEventHandler", "scheduledEventHandlers", "Change",
                  "Timer", FireTimes)

\* adoptEventReporter(ScheduledEventReporter*), likewise.
adoptScheduledEventReporterAtAnyTime ==
    adoptLegacyOf("adoptEventReporter", "scheduledEventReporters", "Report",
                  "Timer", FireTimes)

\* The scheduler on a constructed system that adopts scheduled handlers
\* and reporters.
NextLegacySched ==
    \/ adoptScheduledEventHandlerAtAnyTime
    \/ adoptScheduledEventReporterAtAnyTime
    \/ realizeTopology
    \/ findNextScheduledEventTimes

SpecLegacySched == Init /\ [][NextLegacySched]_vars

\* performEventChangeActions handed the caller's triggered-events array,
\* with change actions of which some call adoptEvent.
stepPerformAdoptingChangeActions ==
    performEventChangeActionsWith({ triggeredEvents }, MaxCalls,
                                  AdoptingChangeEffects)

\* The whole public interface on one system: adoptions, realizeTopology, the
\* queries, and the three calls of an event step.
NextLifeCycle ==
    \/ adoptEventIn("original")
    \/ adoptEventTriggerIn("original")
    \/ adoptScheduledEventHandler
    \/ realizeTopology
    \/ findActiveEventTimers
    \/ findActiveEventWitnesses
    \/ findNextScheduledEventTimes
    \/ ~Aborted /\ noteEventOccurrenceIn("original")
    \/ performEventReportActionsOn({ triggeredEvents }, MaxCalls)
    \/ stepPerformAdoptingChangeActions

SpecLifeCycle == Init /\ [][NextLifeCycle]_vars

(***************************************************************************)
(* Claims about the dynamic trigger collection (SpecColl).                 *)
(***************************************************************************)

\* C5 (as stated): after scenario S6 (adopt three witnesses, remove index 1,
\* adopt a fourth at index 1, remove index 1, remove index 2) the witness
\* slot array has length 1.
C5_LengthOneAfterS6 ==
    scenario = Len(S6Steps) => Len(coll_witnesses) = 1

\* C5 (amended): after scenario S6 the witness slot array has length 2: the
\* first witness is still at index 0, index 1 is a trailing empty slot and is
\* the only entry of the free-slot stack, so exactly one witness is held.
C5_LengthTwoAfterS6 ==
    scenario = Len(S6Steps) =>
        /\ Len(coll_witnesses) = 2
        /\ coll_witnesses[1] # NullObj
        /\ coll_witnesses[2] = NullObj
        /\ coll_freeWitnesses = << 1 >>
        /\ Cardinality({ i \in 1..Len(coll_witnesses) :
                            coll_witnesses[i] # NullObj }) = 1

C5_Witness ==
    /\ scenario = Len(S6Steps)
    /\ call.op = "removeWitness"
    /\ call.index = 2

SlotsMatchFreeStack(things, freeSlots) ==
    \A i \in 0..(Len(things) - 1) :
        IF things[i + 1] = NullObj
            THEN Count(i, freeSlots) = 1
            ELSE Count(i, freeSlots) = 0

\* C6: after any sequence of adoptTimer/removeTimer/adoptWitness/
\* removeWitness calls (removes on occupied indices), every empty slot of a
\* slot array has its index in the matching free-slot stack exactly once and
\* no occupied slot's index is in that stack.
C6_EmptySlotsAreFree ==
    /\ SlotsMatchFreeStack(coll_timers, coll_freeTimers)
    /\ SlotsMatchFreeStack(coll_witnesses, coll_freeWitnesses)

C6_Witness ==
    /\ call.op = "removeWitness"
    /\ \E i \in 1..Len(coll_witnesses) : coll_witnesses[i] = NullObj
    /\ \E i \in 1..Len(coll_witnesses) : coll_witnesses[i] # NullObj
    /\ \E i \in 1..Len(coll_timers) : coll_timers[i] = NullObj

\* What one adopt must do to a slot array and its free-slot stack.
AdoptLaw(things, freeSlots, things2, freeSlots2, ret, obj) ==
    IF freeSlots # << >>
        THEN /\ ret = Last(freeSlots)
             /\ freeSlots2 = Front(freeSlots)
             /\ things2 = [things EXCEPT ![ret + 1] = obj]
        ELSE /\ ret = Len(things)
             /\ freeSlots2 = freeSlots
             /\ things2 = Append(things, obj)

\* C7: an adopt returns the index most recently pushed on the free-slot stack
\* when that stack is non-empty, removing it from the stack (LIFO reuse), and
\* otherwise returns the current length and appends a new slot.
C7_AdoptReusesTopOrAppends ==
    [][ nextObj' = nextObj + 1 =>
          /\ call'.op = "adoptWitness" =>
                AdoptLaw(coll_witnesses, coll_freeWitnesses, coll_witnesses',
                         coll_freeWitnesses', call'.ret, call'.obj)
          /\ call'.op = "adoptTimer" =>
                AdoptLaw(coll_timers, coll_freeTimers, coll_timers',
                         coll_freeTimers', call'.ret, call'.obj) ]_vars

\* An adopt that reused index 1 while index 0 stays on the free-slot stack:
\* the stack held <<0, 1>> and its top was taken.
C7_Witness ==
    /\ call.op = "adoptWitness"
    /\ call.ret = 1
    /\ coll_freeWitnesses = << 0 >>
    /\ Len(coll_witnesses) = 3

(***************************************************************************)
(* Claims about the occurrence resolver (SpecNote).                        *)
(***************************************************************************)

\* The last operation was a noteEventOccurrence call given empty outputs.
FreshNoteCall ==
    /\ call.op = "noteEventOccurrence"
    /\ call.pre.te = << >>
    /\ call.pre.ig = << >>

\* The <<trigger, EventId>> pairs of the call in the order the triggers were
\* passed and, per trigger, the order of its event-id list.
RECURSIVE ListedFrom(_, _, _)
ListedFrom(ts, triggers, k) ==
    IF k > Len(ts)
        THEN << >>
        ELSE [i \in 1..Len(triggers[ts[k] + 1].eventIds) |->
                << ts[k], triggers[ts[k] + 1].eventIds[i] >>]
             \o ListedFrom(ts, triggers, k + 1)

Listed == ListedFrom(call.triggers, call.pre.triggers, 1)
RecognizedListed ==
    { Listed[i][2] : i \in { j \in 1..Len(Listed) :
                                hasEvent(call.pre.events, Listed[j][2]) } }
UnrecognizedListed ==
    { Listed[i][2] : i \in { j \in 1..Len(Listed) :
                                ~hasEvent(call.pre.events, Listed[j][2]) } }
FirstListed(eid) ==
    CHOOSE i \in 1..Len(Listed) :
        Listed[i][2] = eid /\ \A j \in 1..(i - 1) : Listed[j][2] # eid
PosIn(x, s) == CHOOSE i \in 1..Len(s) : s[i] = x
NoRepeats(s) == \A i, j \in 1..Len(s) : i # j => s[i] # s[j]

\* Each recognized caused event has exactly one entry, in first-seen order.
EntriesGroupEvents ==
    /\ \A i, j \in 1..Len(triggeredEvents) :
        i # j => triggeredEvents[i].event # triggeredEvents[j].event
    /\ { triggeredEvents[i].event : i \in 1..Len(triggeredEvents) }
            = RecognizedListed
    /\ \A i, j \in 1..Len(triggeredEvents) :
        i < j => FirstListed(triggeredEvents[i].event)
                    < FirstListed(triggeredEvents[j].event)

\* C1: for a call with empty outputs, triggeredEvents holds each
\* recognized caused event in at most one entry, entries are in first-seen
\* order, and each entry's causes are the triggers causing that event, in
\* input-trigger order, no trigger repeated.
C1_CausesWithoutRepeats ==
    FreshNoteCall =>
        /\ EntriesGroupEvents
        /\ \A i \in 1..Len(triggeredEvents) :
            LET c == triggeredEvents[i].causes
            IN  /\ NoRepeats(c)
                /\ Range(c) = { t \in Range(call.triggers) :
                        IsIn(triggeredEvents[i].event,
                             call.pre.triggers[t + 1].eventIds) }
                /\ \A a, b \in 1..Len(c) :
                    a < b => PosIn(c[a], call.triggers) < PosIn(c[b], call.triggers)

\* The triggers of the pairs that list eid, in order: one per listing.
CausesOf(eid) ==
    LET hits == SelectSeq(Listed, LAMBDA p : p[2] = eid)
    IN  [i \in 1..Len(hits) |-> hits[i][1]]

\* What the loop does produce: each entry's causes hold a trigger once for
\* each time its event-id list names the event (line 879 appends unsearched).
CausesOncePerListing ==
    FreshNoteCall =>
        /\ EntriesGroupEvents
        /\ \A i \in 1..Len(triggeredEvents) :
            triggeredEvents[i].causes = CausesOf(triggeredEvents[i].event)

\* C9: for triggers listing an EventId not in the registry, a call creates no
\* entry for that id, bumps no event counter for it, still bumps the
\* trigger's own counter, and records the id in ignoredEventIds exactly once
\* however many triggers list it and however often.
C9_UnknownIdsIgnoredOnce ==
    FreshNoteCall =>
        /\ \A i \in 1..Len(triggeredEvents) :
            hasEvent(call.pre.events, triggeredEvents[i].event)
        /\ NoRepeats(ignoredEventIds)
        /\ Range(ignoredEventIds) = UnrecognizedListed
        /\ Len(m_events) = Len(call.pre.events)
        /\ (RecognizedListed = {} => m_events = call.pre.events)
        /\ \A t \in Range(call.triggers) :
            m_triggers[t + 1].occ = call.pre.triggers[t + 1].occ + 1

\* Two triggers list the same unknown id, one of them twice, and nothing else.
C9_Witness ==
    /\ FreshNoteCall
    /\ Len(call.triggers) = 2
    /\ Len(Listed) = 3
    /\ Len(ignoredEventIds) = 1
    /\ triggeredEvents = << >>

\* C10: one call with empty outputs adds exactly 1 to the occurrence counter
\* of each input trigger and of each distinct recognized event those triggers
\* cause, however many of them cause it; all other counters, and everything
\* else in the registries, stay as they were.
C10_CountersBumpedOnce ==
    FreshNoteCall =>
        /\ Len(m_triggers) = Len(call.pre.triggers)
        /\ \A k \in 1..Len(m_triggers) :
            m_triggers[k] = [call.pre.triggers[k] EXCEPT !.occ =
                @ + (IF IsIn(k - 1, call.triggers) THEN 1 ELSE 0)]
        /\ Len(m_events) = Len(call.pre.events)
        /\ \A k \in 1..Len(m_events) :
            m_events[k] = [call.pre.events[k] EXCEPT !.occ =
                @ + (IF (k - 1) \in RecognizedListed THEN 1 ELSE 0)]

\* An event caused by two input triggers, and a trigger that was not passed.
C10_Witness ==
    /\ FreshNoteCall
    /\ \E i \in 1..Len(triggeredEvents) :
        /\ Len(triggeredEvents[i].causes) >= 2
        /\ m_events[triggeredEvents[i].event + 1].occ = 1
    /\ \E t \in NoteTriggerIds : ~IsIn(t, call.triggers)

\* C11: two successive noteEventOccurrence calls with the same trigger list,
\* each given fresh empty outputs, yield the same triggeredEvents and the same
\* ignoredEventIds, and every occurrence counter ends at twice the increment
\* the first call gave it.
C11_SameGroupingDoubledCounters ==
    [][ (FreshNoteCall /\ FreshNoteCall' /\ call'.triggers = call.triggers) =>
            /\ triggeredEvents' = triggeredEvents
            /\ ignoredEventIds' = ignoredEventIds
            /\ Len(m_events') = Len(call.pre.events)
            /\ Len(m_triggers') = Len(call.pre.triggers)
            /\ \A k \in 1..Len(call.pre.events) :
                m_events'[k].occ - call.pre.events[k].occ
                    = 2 * (m_events[k].occ - call.pre.events[k].occ)
            /\ \A k \in 1..Len(call.pre.triggers) :
                m_triggers'[k].occ - call.pre.triggers[k].occ
                    = 2 * (m_triggers[k].occ - call.pre.triggers[k].occ) ]_vars

\* The second of two calls with the same single trigger, which lists a
\* registered and an unknown id.
C11_Witness ==
    /\ FreshNoteCall
    /\ calls = 2
    /\ Len(call.triggers) = 1
    /\ \A k \in 1..Len(call.pre.triggers) :
        call.pre.triggers[k].occ = IF k - 1 = call.triggers[1] THEN 1 ELSE 0
    /\ triggeredEvents # << >>
    /\ ignoredEventIds # << >>
    /\ \E k \in 1..Len(m_events) : m_events[k].occ = 2

(***************************************************************************)
(* Claims about the next-event scheduler (SpecSched).                      *)
(***************************************************************************)

SchedCall == call.op = "findNextScheduledEventTimes"
SchedReturned == SchedCall /\ call.status = "ok"

\* The timer causes at least one registered event that has a Change action.
IsChangeTimer(t) ==
    \E i \in 1..Len(m_triggers[t + 1].eventIds) :
        /\ hasEvent(m_events, m_triggers[t + 1].eventIds[i])
        /\ hasChangeAction(m_events[m_triggers[t + 1].eventIds[i] + 1])

ChangeCategory == SelectSeq(m_timers, IsChangeTimer)
ReportCategory == SelectSeq(m_timers, LAMBDA t : ~IsChangeTimer(t))
ChangeTimeOf(t) ==
    calcTimeOfNextTrigger(m_triggers[t + 1], call.timeOfLastChange)
ReportTimeOf(t) ==
    calcTimeOfNextTrigger(m_triggers[t + 1], call.timeOfLastReport)
MinTime(S) == IF S = {} THEN Infinity ELSE CHOOSE m \in S : \A x \in S : m <= x

\* C2: in a call that returns, each category's next time is the minimum of
\* calcTimeOfNextTrigger over the timers of the category (+infinity for none)
\* and its list is exactly the category's timers at that minimum, in
\* timer-list order; nothing the outputs held before the call survives.
C2_EarliestTimeAndItsTimers ==
    SchedReturned =>
        /\ timeOfNextChange
            = MinTime({ ChangeTimeOf(t) : t \in Range(ChangeCategory) })
        /\ changeTimers
            = SelectSeq(ChangeCategory,
                        LAMBDA t : ChangeTimeOf(t) = timeOfNextChange)
        /\ timeOfNextReport
            = MinTime({ ReportTimeOf(t) : t \in Range(ReportCategory) })
        /\ reportTimers
            = SelectSeq(ReportCategory,
                        LAMBDA t : ReportTimeOf(t) = timeOfNextReport)

\* Three change timers, the first two tied for the earliest time, after an
\* earlier call had left another change-timer list in the output.
C2_Witness ==
    /\ SchedReturned
    /\ Len(ChangeCategory) = 3
    /\ changeTimers = SubSeq(ChangeCategory, 1, 2)
    /\ timeOfNextChange < Infinity
    /\ call.pre.changeTimers = SubSeq(ChangeCategory, 3, 3)

\* C3: a timer whose calcTimeOfNextTrigger returns +infinity is in neither
\* reportTimers nor changeTimers, also when every timer of its category
\* returns +infinity.
C3_InfiniteTimersExcluded ==
    SchedCall =>
        /\ \A t \in Range(changeTimers) : ChangeTimeOf(t) # Infinity
        /\ \A t \in Range(reportTimers) : ReportTimeOf(t) # Infinity

\* C4: a timer is a change-timer iff one of the events it causes has a Change
\* action, else a report-timer (also when it causes no event); a change-timer
\* is evaluated with timeOfLastChange and is only ever in changeTimers, a
\* report-timer with timeOfLastReport and only ever in reportTimers; no timer
\* is in both, and neither category's result depends on the other category.
C4_ChangeAndReportPartition ==
    SchedCall =>
        /\ Range(changeTimers) \cap Range(reportTimers) = {}
        /\ \A t \in Range(changeTimers) :
            IsChangeTimer(t) /\ ChangeTimeOf(t) = timeOfNextChange
        /\ \A t \in Range(reportTimers) :
            ~IsChangeTimer(t) /\ ReportTimeOf(t) = timeOfNextReport
        /\ call.status = "ok" =>
            \A t \in Range(m_timers) :
                IF IsChangeTimer(t)
                    THEN /\ timeOfNextChange <= ChangeTimeOf(t)
                         /\ ChangeTimeOf(t) = timeOfNextChange
                                => IsIn(t, changeTimers)
                    ELSE /\ timeOfNextReport <= ReportTimeOf(t)
                         /\ ReportTimeOf(t) = timeOfNextReport
                                => IsIn(t, reportTimers)

\* A report-only timer and a change timer, each alone in its list with its
\* own time, where either would never trigger if evaluated with the other
\* category's time of last trigger; and a timer that causes no event.
C4_Witness ==
    /\ SchedReturned
    /\ Len(reportTimers) = 1
    /\ Len(changeTimers) = 1
    /\ timeOfNextReport < Infinity
    /\ timeOfNextChange < Infinity
    /\ call.timeOfLastReport # call.timeOfLastChange
    /\ ChangeTimeOf(reportTimers[1]) = Infinity
        \/ ReportTimeOf(changeTimers[1]) = Infinity
    /\ m_triggers[reportTimers[1] + 1].eventIds = << >>

(***************************************************************************)
(* Claims about the active-set queries (Spec).                             *)
(***************************************************************************)

\* C8: findActiveEventTimers and findActiveEventWitnesses each return the
\* static topology-cache entries in cache order followed by the triggers held
\* in the state's dynamic collection in slot order, empty slots skipped.
C8_ActiveIsStaticThenDynamic ==
    /\ call.op = "findActiveEventTimers" =>
        activeTimers = StaticPtrs(m_timers) \o HeldIn(coll_timers)
    /\ call.op = "findActiveEventWitnesses" =>
        activeWitnesses = StaticPtrs(m_witnesses) \o HeldIn(coll_witnesses)

(***************************************************************************)
(* Claims about the registries (SpecReg).                                  *)
(***************************************************************************)

\* The trigger with the given id lists exactly the event with the given id.
Causes(tid, eid) ==
    /\ hasEventTrigger(m_triggers, tid)
    /\ hasEvent(m_events, eid)
    /\ m_triggers[tid + 1].id = tid
    /\ m_events[eid + 1].id = eid
    /\ m_triggers[tid + 1].eventIds = << eid >>

\* C12: after construction and after any later adoptions the predefined
\* event ids are 0, 1, 2, 3 (initialization, timeAdvanced, termination,
\* extremeValueIsolated), the predefined trigger ids 0, 1, 2, and each
\* predefined trigger causes the predefined event of the same name.
C12_PredefinedIdsFixed ==
    /\ predefined.initializationEventId = 0
    /\ predefined.timeAdvancedEventId = 1
    /\ predefined.terminationEventId = 2
    /\ predefined.extremeValueIsolatedEventId = 3
    /\ predefined.initializationTriggerId = 0
    /\ predefined.timeAdvancedTriggerId = 1
    /\ predefined.terminationTriggerId = 2
    /\ hasEvent(m_events, predefined.extremeValueIsolatedEventId)
    /\ Causes(predefined.initializationTriggerId,
              predefined.initializationEventId)
    /\ Causes(predefined.timeAdvancedTriggerId, predefined.timeAdvancedEventId)
    /\ Causes(predefined.terminationTriggerId, predefined.terminationEventId)

\* Two user events and two user triggers were adopted, some by a legacy
\* adopter.
C12_Witness ==
    /\ Len(m_events) = Len(ConstructedEvents) + 2
    /\ Len(m_triggers) = Len(ConstructedTriggers) + 2
    /\ legacy # NoLegacy

\* C13: every event ever adopted, directly or by a legacy adopter, is what
\* getEvent returns for the id its adoption returned, and hasEvent is true
\* for that id; likewise every trigger with getEventTrigger/hasEventTrigger.
C13_AdoptedAreFound ==
    \A b \in Builds :
        /\ \A k \in 1..Len(adopted.events) :
            LET a == adopted.events[k]
            IN  /\ getEvent(m_events, a.ret, b) = [status |-> "ok", ret |-> a.obj]
                /\ a.obj.id = a.ret
                /\ hasEventChecked(m_events, a.ret, b)
                        = [status |-> "ok", ret |-> TRUE]
        /\ \A k \in 1..Len(adopted.triggers) :
            LET a == adopted.triggers[k]
            IN  /\ getEventTrigger(m_triggers, a.ret, b)
                        = [status |-> "ok", ret |-> a.obj]
                /\ a.obj.id = a.ret
                /\ hasEventTriggerChecked(m_triggers, a.ret, b)
                        = [status |-> "ok", ret |-> TRUE]
        /\ \A array \in DOMAIN legacy : \A k \in 1..Len(legacy[array]) :
            LET h == legacy[array][k]
            IN  /\ getEvent(m_events, h.m_eventId, b).status = "ok"
                /\ getEventTrigger(m_triggers, h.m_triggerId, b).status = "ok"
                /\ m_triggers[h.m_triggerId + 1].eventIds = << h.m_eventId >>

\* A direct adoptEvent, a legacy adoption, then a direct adoptEventTrigger.
C13_Witness ==
    /\ call.op = "adoptEventTrigger"
    /\ call.status = "ok"
    /\ legacy # NoLegacy
    /\ Len(adopted.events) = Len(ConstructedEvents) + 2
    /\ Len(adopted.triggers) = Len(ConstructedTriggers) + 2
    /\ m_triggers[Len(m_triggers) - 1].eventIds = << Len(m_events) - 1 >>

\* The k-th adoption (from zero, the predefined ones included) got id k.
DenseIds ==
    /\ Len(adopted.events) = Len(m_events)
    /\ Len(adopted.triggers) = Len(m_triggers)
    /\ \A k \in 1..Len(adopted.events) :
        adopted.events[k].ret = k - 1 /\ m_events[k].id = k - 1
    /\ \A k \in 1..Len(adopted.triggers) :
        adopted.triggers[k].ret = k - 1 /\ m_triggers[k].id = k - 1

\* C14: ids are dense and never reused: the k-th successful adoption into a
\* registry gets id k, no two adopted objects share an id, an object keeps
\* its id, and numEvents / numEventTriggers never decrease.
C14_IdsDenseNeverReused ==
    [][ /\ DenseIds /\ DenseIds'
        /\ Len(m_events') >= Len(m_events)
        /\ Len(m_triggers') >= Len(m_triggers)
        /\ \A k \in 1..Len(m_events) : m_events'[k].id = m_events[k].id
        /\ \A k \in 1..Len(m_triggers) : m_triggers'[k].id = m_triggers[k].id
        /\ \A i, j \in 1..Len(adopted.events') :
                i # j => adopted.events'[i].ret # adopted.events'[j].ret
        /\ \A i, j \in 1..Len(adopted.triggers') :
                i # j => adopted.triggers'[i].ret # adopted.triggers'[j].ret
      ]_vars

\* The second user event was adopted directly and got id 5.
C14_Witness ==
    /\ call.op = "adoptEvent"
    /\ call.status = "ok"
    /\ call.ret = Len(ConstructedEvents) + 1
    /\ Len(m_triggers) > Len(ConstructedTriggers)

\* The last call was an adoption handed a null pointer.
NullAdoption ==
    /\ call.op \in { "adoptEvent", "adoptEventTrigger" }
    /\ call.arg = NullPtr

\* C15: adoptEvent(null) and adoptEventTrigger(null) fail with
\* InvalidArgument and leave both registries, their sizes and every assigned
\* id as they were; the next successful adoption gets the id it would have
\* got without the failed call.
C15_NullAdoptionRejected ==
    [][ /\ NullAdoption' =>
            /\ call'.status = "InvalidArgument"
            /\ m_events' = call'.pre.events
            /\ m_triggers' = call'.pre.triggers
            /\ m_events' = m_events
            /\ m_triggers' = m_triggers
            /\ adopted' = adopted
        /\ (NullAdoption /\ ~NullAdoption' /\ call'.status = "ok") =>
            /\ call'.op = "adoptEvent" => call'.ret = Len(call.pre.events)
            /\ call'.op = "adoptEventTrigger" =>
                    call'.ret = Len(call.pre.triggers)
      ]_vars

\* A null pointer was refused by a system that holds a user event.
C15_Witness ==
    /\ NullAdoption
    /\ call.status = "InvalidArgument"
    /\ Len(m_events) > Len(ConstructedEvents)
    /\ Len(m_events) < Len(ConstructedEvents) + MaxUserTriggers

(***************************************************************************)
(* Claims about the lookups (SpecLookup).                                  *)
(***************************************************************************)

HasCall == call.op \in { "hasEvent", "hasEventTrigger" }
GetCall == call.op \in { "getEvent", "updEvent", "getEventTrigger",
                         "updEventTrigger" }

\* The registry a lookup reads, the ids its adoptions returned, and
\* everything that must be as it was before the call.
LookedUp == IF call.op \in { "hasEvent", "getEvent", "updEvent" }
                THEN m_events ELSE m_triggers
AdoptedIds == IF call.op \in { "hasEvent", "getEvent", "updEvent" }
                THEN { adopted.events[k].ret : k \in 1..Len(adopted.events) }
                ELSE { adopted.triggers[k].ret : k \in 1..Len(adopted.triggers) }
NothingModified == Snapshot = call.pre

\* C16: hasEvent and hasEventTrigger are total: no error is raised, the
\* invalid sentinel and ids at or past the registry size give false, and the
\* result is true exactly for the ids of adopted objects.
C16_HasIsTotal ==
    HasCall =>
        /\ call.status = "ok"
        /\ call.ret = (call.id \in AdoptedIds)
        /\ (call.id = InvalidId \/ call.id >= Len(LookedUp)) => call.ret = FALSE

\* C16 (amended): hasEvent and hasEventTrigger raise no error and return
\* false for any id at or past the registry size, and true exactly for the
\* ids of adopted objects; for the invalid sentinel they return false in a
\* release build and raise InvalidArgument in a debug build.
C16_HasIsTotalButForSentinelInDebug ==
    HasCall =>
        IF call.id = InvalidId /\ call.build = "debug"
            THEN call.status = "InvalidArgument"
            ELSE /\ call.status = "ok"
                 /\ call.ret = (call.id \in AdoptedIds)
                 /\ (call.id = InvalidId \/ call.id >= Len(LookedUp)) =>
                        call.ret = FALSE

\* hasEvent was asked about the invalid sentinel in a debug build of a
\* system that holds a user event.
C16_Witness ==
    /\ call.op = "hasEvent"
    /\ call.id = InvalidId
    /\ call.build = "debug"
    /\ call.status = "InvalidArgument"
    /\ Len(m_events) > Len(ConstructedEvents)

\* C17: getEvent/updEvent and getEventTrigger/updEventTrigger fail with an
\* index error for an id outside [0, registry size) and with a
\* missing-object error for an in-range id whose slot is empty; either way
\* nothing is modified.
C17_BadIdsFail ==
    GetCall =>
        /\ ~isIndexInRange(call.id, Len(LookedUp)) =>
                call.status = "InvalidIndex"
        /\ (isIndexInRange(call.id, Len(LookedUp))
                /\ LookedUp[call.id + 1] = NullPtr) => call.status = "Missing"
        /\ call.status # "ok" => NothingModified

\* C17 (amended): the four lookups fail with an index error for an id at or
\* past the registry size; for the invalid sentinel they fail with an index
\* error in a release build and with InvalidArgument in a debug build; for
\* an in-range id whose slot is empty they fail with a missing-object
\* error; in each case nothing is modified.
C17_BadIdsFailSentinelByBuild ==
    GetCall =>
        /\ call.id >= Len(LookedUp) => call.status = "InvalidIndex"
        /\ call.id = InvalidId =>
                call.status = IF call.build = "debug" THEN "InvalidArgument"
                                                      ELSE "InvalidIndex"
        /\ (isIndexInRange(call.id, Len(LookedUp))
                /\ LookedUp[call.id + 1] = NullPtr) => call.status = "Missing"
        /\ call.status # "ok" => NothingModified

\* updEventTrigger was handed the id one past the last trigger.
C17_Witness ==
    /\ call.op = "updEventTrigger"
    /\ call.id = Len(m_triggers)
    /\ call.status = "InvalidIndex"
    /\ Len(m_triggers) > Len(ConstructedTriggers)

(***************************************************************************)
(* Claims about the topology cache (SpecTopo).                             *)
(***************************************************************************)

\* The cached list holds exactly the ids of the triggers of the kind, in
\* trigger-id order.
CachedInIdOrder(cached, kind) ==
    /\ Range(cached) = { k - 1 : k \in { j \in 1..Len(m_triggers) :
                                            m_triggers[j].kind = kind } }
    /\ \A i, j \in 1..Len(cached) : i < j => cached[i] < cached[j]

\* C18: after realizeTopology every timer of the registry has a timer index
\* equal to its position in the cached timer list, every witness a witness
\* index equal to its position in the cached witness list, both lists are in
\* trigger-id order, and for every witness w and every derivative order d in
\* [0, min(MaxDeriv, w.numDerivs)] the index of w is exactly once in
\* byStage[w.dependsOnStage(d)][d] and in no other stage's bucket for d.
C18_CacheIndicesAndStageBuckets ==
    call.op = "realizeTopology" =>
        /\ CachedInIdOrder(m_timers, "Timer")
        /\ CachedInIdOrder(m_witnesses, "Witness")
        /\ \A k \in 1..Len(m_triggers) :
            LET t == m_triggers[k]
            IN  /\ t.kind = "Timer" =>
                    /\ isIndexInRange(t.timerIndex, Len(m_timers))
                    /\ m_timers[t.timerIndex + 1] = t.id
                /\ t.kind = "Witness" =>
                    /\ isIndexInRange(t.witnessIndex, Len(m_witnesses))
                    /\ m_witnesses[t.witnessIndex + 1] = t.id
                    /\ \A d \in 0..Min(MaxDeriv, t.numDerivs) :
                        \A g \in Stages :
                            Count(t.witnessIndex, m_witnessesByStage[g][d])
                                = IF g = t.stages[d + 1] THEN 1 ELSE 0

\* Realized with two witnesses behind a timer: one with more derivatives
\* than MaxDeriv, both in one bucket for order 0 and in different stages'
\* buckets for order 1.
C18_Witness ==
    /\ call.op = "realizeTopology"
    /\ Len(m_witnesses) = 2
    /\ \E k \in 1..Len(m_triggers) : m_triggers[k].numDerivs > MaxDeriv
    /\ \E g \in Stages : Len(m_witnessesByStage[g][0]) = 2
    /\ \E g \in Stages : Len(m_witnessesByStage[g][1]) = 1
                          /\ m_witnessesByStage[g][1] = << 1 >>


\* The last call was performEventChangeActions and it returned.
ChangeCallReturned ==
    /\ call.op = "performEventChangeActions"
    /\ call.status = "ok"

\* The stages whose version is not the one the State had at entry.
StagesChanged == { g \in Stages : stageVersions[g] # call.pre.stageVersions[g] }

\* The exit statuses of the change actions invoked by the last call, in the
\* order of their invocation.
StatusesOfThisCall ==
    LET from == Len(call.pre.performed)
    IN  [k \in 1..(Len(performed) - from) |-> performed[from + k].status]

\* C19: when performEventChangeActions returns, result.lowestModifiedStage
\* is the lowest stage whose version differs from the one at entry (the
\* infinity stage when no version changed), and result holds only what the
\* actions of this call reported, whatever the caller's result held before.
C19_LowestModifiedStageFromSnapshot ==
    ChangeCallReturned =>
        /\ result.lowestModifiedStage =
                IF StagesChanged = {}
                    THEN StageInfinity
                    ELSE CHOOSE g \in StagesChanged :
                            \A h \in StagesChanged : g <= h
        /\ result.statuses = StatusesOfThisCall

\* C19 witness: a second performEventChangeActions call got a result that
\* held statuses, two change actions ran, the first changed nothing and the
\* second modified the last stage only.
C19_Witness ==
    /\ ChangeCallReturned
    /\ call.pre.result.statuses # << >>
    /\ Len(result.statuses) = 2
    /\ StagesChanged = { NWitnessStages - 1 }
    /\ result.lowestModifiedStage = NWitnessStages - 1

\* The last call was a dispatcher call handed an empty triggeredEvents.
EmptyDispatch ==
    /\ call.op \in { "performEventReportActions", "performEventChangeActions" }
    /\ call.entries = << >>

\* C20: a dispatcher call with an empty triggeredEvents fails with
\* PreconditionViolated, invokes no action and leaves the State and the
\* result as they were.
C20_EmptyListIsRejected ==
    EmptyDispatch =>
        /\ call.status = "PreconditionViolated"
        /\ performed = call.pre.performed
        /\ stageVersions = call.pre.stageVersions
        /\ result = call.pre.result


\* The last call was a pass of the given kind that ran to its end over a
\* non-empty triggered set.
PassOver(c, op) ==
    /\ c.op = op
    /\ c.status = "ok"
    /\ c.entries # << >>

\* C21: for one triggered set produced by noteEventOccurrence, no run
\* executes a change pass for the set and afterwards a report pass for that
\* same set: a change pass is never followed by a report pass over the
\* triggered set it was handed.
C21_NoReportPassAfterChangePass ==
    [][~ /\ PassOver(call, "performEventChangeActions")
         /\ PassOver(call', "performEventReportActions")
         /\ call'.entries = call.entries]_vars


\* The four Guts arrays of legacy objects.
LegacyArrays ==
    { "scheduledEventHandlers", "triggeredEventHandlers",
      "scheduledEventReporters", "triggeredEventReporters" }

\* The handlers and reporters adopted so far keep the ids they stored.
LegacyIdsKept ==
    \A a \in LegacyArrays :
        /\ Len(legacy'[a]) >= Len(legacy[a])
        /\ SubSeq(legacy'[a], 1, Len(legacy[a])) = legacy[a]

\* The step adopted a legacy object into array a: one new event, one new
\* trigger, wired to each other and to the object as its kind requires.
LegacyAdoptionInto(a) ==
    LET e == Last(m_events')
        t == Last(m_triggers')
        h == Last(legacy'[a])
    IN  /\ Len(legacy'[a]) = Len(legacy[a]) + 1
        /\ \A b \in LegacyArrays \ { a } : legacy'[b] = legacy[b]
        /\ Len(m_events') = Len(m_events) + 1
        /\ Len(m_triggers') = Len(m_triggers) + 1
        /\ Front(m_events') = m_events
        /\ Front(m_triggers') = m_triggers
        /\ e.id = Len(m_events)
        /\ t.id = Len(m_triggers)
        /\ t.eventIds = << e.id >>
        /\ e.actions = << IF a \in { "scheduledEventHandlers",
                                     "triggeredEventHandlers" }
                            THEN "Change" ELSE "Report" >>
        /\ t.kind = IF a \in { "scheduledEventHandlers",
                               "scheduledEventReporters" }
                        THEN "Timer" ELSE "Witness"
        /\ h.m_eventId = e.id
        /\ h.m_triggerId = t.id

\* C22: each legacy adoption adds exactly one event and one trigger; the
\* trigger lists exactly the new event's id; the event carries one action,
\* Change for a handler and Report for a reporter; the trigger is a Timer
\* for a scheduled and a Witness for a triggered object; the object's
\* stored ids are the ids just assigned, and no later adoption changes them.
C22_LegacyAdoptionWiresOneEventOneTrigger ==
    [][/\ LegacyIdsKept
       /\ legacy' # legacy =>
            \E a \in LegacyArrays : LegacyAdoptionInto(a)]_vars

\* C22 witness: a triggered reporter was adopted after a scheduled handler
\* that still stores the ids 4 and 3 it was given, and it got ids 5 and 4.
C22_Witness ==
    /\ call.op = "adoptEventReporter"
    /\ call.array = "triggeredEventReporters"
    /\ legacy.scheduledEventHandlers = << [m_eventId |-> 4, m_triggerId |-> 3] >>
    /\ legacy.triggeredEventReporters = << [m_eventId |-> 5, m_triggerId |-> 4] >>
    /\ m_triggers[5].kind = "Witness"
    /\ m_triggers[5].eventIds = << 5 >>
    /\ m_events[6].actions = << "Report" >>


\* The last call adopted a TriggeredEventHandler or TriggeredEventReporter.
TriggeredAdoption ==
    /\ call.op \in { "adoptEventHandler", "adoptEventReporter" }
    /\ call.array \in { "triggeredEventHandlers", "triggeredEventReporters" }

\* C26: the witness a triggered handler or reporter gets has the direction
\* (true,true) -> RisingAndFalling, (true,false) -> Rising,
\* (false,true) -> Falling, (false,false) -> Falling, and the adoption
\* succeeds in all four cases.
C26_DirectionFromTriggerInfo ==
    TriggeredAdoption =>
        /\ call.status = "ok"
        /\ Len(m_triggers) = Len(call.pre.triggers) + 1
        /\ Last(m_triggers).kind = "Witness"
        /\ (call.rising /\ call.falling) =>
                Last(m_triggers).direction = "RisingAndFalling"
        /\ (call.rising /\ ~call.falling) =>
                Last(m_triggers).direction = "Rising"
        /\ (~call.rising /\ call.falling) =>
                Last(m_triggers).direction = "Falling"
        /\ (~call.rising /\ ~call.falling) =>
                Last(m_triggers).direction = "Falling"

\* C26 witness: a triggered handler whose trigger info asks for neither
\* transition was adopted and its witness is a Falling one.
C26_Witness ==
    /\ TriggeredAdoption
    /\ call.array = "triggeredEventHandlers"
    /\ ~call.rising
    /\ ~call.falling
    /\ Last(m_triggers).direction = "Falling"


\* What can be observed of a registry pair through numEvents,
\* numEventTriggers, getEvent / getEventTrigger and the occurrence counters.
Observable(r) ==
    [numEvents |-> Len(r.events), numEventTriggers |-> Len(r.triggers),
     events |-> r.events, triggers |-> r.triggers]

CacheWasBuilt == m_timers # << >> \/ m_witnesses # << >>

\* Every trigger of the registry that is of the given kind is in the list.
ListsEveryRegistered(kind, list) ==
    \A k \in 1..Len(m_triggers) :
        m_triggers[k].kind = kind => IsIn(StaticPtr(k - 1), list)

\* C24: once realizeTopology has run, a change to the trigger registry
\* invalidates the cache: findActiveEventTimers and
\* findActiveEventWitnesses never return a list that omits a registered
\* timer or witness.
C24_NoStaleCacheServed ==
    /\ (call.op = "findActiveEventTimers" /\ CacheWasBuilt) =>
            ListsEveryRegistered("Timer", activeTimers)
    /\ (call.op = "findActiveEventWitnesses" /\ CacheWasBuilt) =>
            ListsEveryRegistered("Witness", activeWitnesses)


\* The entries the last dispatcher call added to the log for actions that
\* called adoptEvent while they ran.
AdoptionsFromActions ==
    { k \in (Len(call.pre.performed) + 1)..Len(performed) :
        performed[k].adoption # "none" }

\* C25: an adoption attempted from within an action while
\* performEventReportActions or performEventChangeActions is running is
\* rejected with PreconditionViolated and leaves numEvents and
\* numEventTriggers unchanged.
C25_NoAdoptionDuringActiveStep ==
    (call.op \in { "performEventReportActions", "performEventChangeActions" }
        /\ AdoptionsFromActions # {}) =>
        /\ \A k \in AdoptionsFromActions :
                performed[k].adoption = "PreconditionViolated"
        /\ Len(m_events) = call.pre.numEvents
        /\ Len(m_triggers) = call.pre.numEventTriggers


\* The triggers of the registry that are of the given kind.
RegisteredOfKind(kind) ==
    { k \in 1..Len(m_triggers) : m_triggers[k].kind = kind }

\* The number of bucket entries the witnesses of the registry call for: one
\* per witness and derivative order up to min(MaxDeriv, numDerivs).
RECURSIVE BucketEntriesWanted(_)
BucketEntriesWanted(k) ==
    IF k > Len(m_triggers)
        THEN 0
        ELSE (IF m_triggers[k].kind = "Witness"
                THEN Min(MaxDeriv, m_triggers[k].numDerivs) + 1
                ELSE 0)
             + BucketEntriesWanted(k + 1)

\* The number of entries the by-stage buckets hold, from stage g and
\* derivative order d on.
RECURSIVE BucketEntriesHeld(_, _)
BucketEntriesHeld(g, d) ==
    IF g >= NWitnessStages
        THEN 0
        ELSE IF d > MaxDeriv
            THEN BucketEntriesHeld(g + 1, 0)
            ELSE Len(m_witnessesByStage[g][d]) + BucketEntriesHeld(g, d + 1)

\* C27: whatever the cache held before, realizeTopology leaves a cache that
\* depends on the trigger registry alone: as many timers and witnesses as
\* the registry has, as many bucket entries as its witnesses call for, no
\* entry twice in a list, and a trigger that is neither timer nor witness
\* in no list.
C27_CacheFromRegistryAlone ==
    call.op = "realizeTopology" =>
        /\ Len(m_timers) = Cardinality(RegisteredOfKind("Timer"))
        /\ Len(m_witnesses) = Cardinality(RegisteredOfKind("Witness"))
        /\ BucketEntriesHeld(0, 0) = BucketEntriesWanted(1)
        /\ NoRepeats(m_timers)
        /\ NoRepeats(m_witnesses)
        /\ \A g \in Stages, d \in 0..MaxDeriv :
                NoRepeats(m_witnessesByStage[g][d])
        /\ \A k \in RegisteredOfKind("Other") :
                /\ ~IsIn(k - 1, m_timers)
                /\ ~IsIn(k - 1, m_witnesses)
                /\ m_triggers[k].timerIndex = -1
                /\ m_triggers[k].witnessIndex = -1

\* C27 witness: realizeTopology ran over a cache that already held the
\* registry's one witness, with a trigger of another kind in the registry
\* by now, and left that one witness once in the cache.
C27_Witness ==
    /\ call.op = "realizeTopology"
    /\ call.pre.numWitnesses = 1
    /\ RegisteredOfKind("Other") # {}
    /\ Len(m_witnesses) = 1
    /\ BucketEntriesHeld(0, 0) >= 1


\* The timer of a legacy object is in the list only if the cache holds it
\* and its next time, evaluated against timeOfLast, is the list's time.
OnlyAtItsTime(h, list, timeOfLast, timeOfNext) ==
    IsIn(h.m_triggerId, list) =>
        /\ IsIn(h.m_triggerId, m_timers)
        /\ calcTimeOfNextTrigger(m_triggers[h.m_triggerId + 1], timeOfLast)
                = timeOfNext

\* C28: findNextScheduledEventTimes puts the timer of an adopted
\* ScheduledEventHandler only in changeTimers, evaluated against
\* timeOfLastChange, and the timer of an adopted ScheduledEventReporter
\* only in reportTimers, evaluated against timeOfLastReport.
C28_HandlerChangesReporterReports ==
    (call.op = "findNextScheduledEventTimes" /\ call.status = "ok") =>
        /\ \A k \in 1..Len(legacy.scheduledEventHandlers) :
            LET h == legacy.scheduledEventHandlers[k]
            IN  /\ ~IsIn(h.m_triggerId, reportTimers)
                /\ OnlyAtItsTime(h, changeTimers, call.timeOfLastChange,
                                 timeOfNextChange)
        /\ \A k \in 1..Len(legacy.scheduledEventReporters) :
            LET h == legacy.scheduledEventReporters[k]
            IN  /\ ~IsIn(h.m_triggerId, changeTimers)
                /\ OnlyAtItsTime(h, reportTimers, call.timeOfLastReport,
                                 timeOfNextReport)

\* C28 witness: with different times of last report and last change, the
\* handler's timer is alone in changeTimers and the reporter's timer alone
\* in reportTimers, each at a finite time.
C28_Witness ==
    /\ call.op = "findNextScheduledEventTimes"
    /\ call.status = "ok"
    /\ call.timeOfLastReport # call.timeOfLastChange
    /\ Len(legacy.scheduledEventHandlers) = 1
    /\ Len(legacy.scheduledEventReporters) = 1
    /\ changeTimers = << legacy.scheduledEventHandlers[1].m_triggerId >>
    /\ reportTimers = << legacy.scheduledEventReporters[1].m_triggerId >>
    /\ timeOfNextChange < Infinity
    /\ timeOfNextReport < Infinity


\* Every index on the free-slot stack is an index of the slot array.
FreeSlotsInRange(things, freeSlots) ==
    \A k \in 1..Len(freeSlots) : isIndexInRange(freeSlots[k], Len(things))

\* C29: every index held in a free-slot stack is smaller than the length of
\* its slot array, and the slot an adopt chose was empty when it was filled
\* (the assert of adoptThing holds).
C29_FreeSlotsInRangeAndEmpty ==
    /\ FreeSlotsInRange(coll_timers, coll_freeTimers)
    /\ FreeSlotsInRange(coll_witnesses, coll_freeWitnesses)
    /\ call.op \in { "adoptTimer", "adoptWitness" } => call.assertOk

\* C29 witness: an adopt filled a freed slot below the last one while
\* another freed slot is still on the stack.
C29_Witness ==
    /\ call.op = "adoptWitness"
    /\ call.assertOk
    /\ call.ret < Len(coll_witnesses) - 1
    /\ coll_freeWitnesses # << >>

\* Every object of the slot array other than the one at removedIndex is at
\* its index afterwards.
StaysPut(things, things2, removedIndex) ==
    \A k \in 1..Len(things) :
        (things[k] # NullObj /\ k - 1 # removedIndex) =>
            /\ k <= Len(things2)
            /\ things2[k] = things[k]

\* C30: the index an adopt returns designates the adopted object, and no
\* operation on the collection moves or overwrites an object other than
\* the one a remove is called for.
C30_IndexDesignatesObjectUntilRemoved ==
    [][/\ StaysPut(coll_timers, coll_timers',
                   IF call'.op = "removeTimer" THEN call'.index ELSE -1)
       /\ StaysPut(coll_witnesses, coll_witnesses',
                   IF call'.op = "removeWitness" THEN call'.index ELSE -1)
       /\ call'.op = "adoptTimer" => coll_timers'[call'.ret + 1] = call'.obj
       /\ call'.op = "adoptWitness" =>
                coll_witnesses'[call'.ret + 1] = call'.obj]_vars

\* C30 witness: the fourth witness was adopted into the freed slot 0 while
\* the second and third are still at the indices 1 and 2 they were given.
C30_Witness ==
    /\ call.op = "adoptWitness"
    /\ call.ret = 0
    /\ coll_witnesses = << 4, 2, 3 >>


\* Every pointer of the list points at a trigger of the copy's registry.
OwnedByCopy(ptrs) ==
    \A k \in 1..Len(ptrs) :
        /\ ptrs[k].owner = "copy"
        /\ isIndexInRange(ptrs[k].id, Len(other.triggers))

\* C31: every timer and witness the copy's topology cache refers to, and so
\* every one the copy's findActiveEventTimers / findActiveEventWitnesses
\* returns, is a trigger of the copy's own registry.
C31_CopyCacheRefersToOwnTriggers ==
    other.copied =>
        /\ OwnedByCopy(other.timers)
        /\ OwnedByCopy(other.witnesses)
        /\ (call.op = "findActiveEventTimers" /\ call.system = "copy") =>
                OwnedByCopy(activeTimers)
        /\ (call.op = "findActiveEventWitnesses" /\ call.system = "copy") =>
                OwnedByCopy(activeWitnesses)


\* A noteEventOccurrence call has returned.
NoteCall == call.op = "noteEventOccurrence"

\* The output entries the caller's array held before the call.
EntriesBefore == 1..Len(call.pre.te)

\* The output entries the call appended.
EntriesAppended == (Len(call.pre.te) + 1)..Len(triggeredEvents)

\* C32: noteEventOccurrence only appends to its outputs. Entries that were in
\* triggeredEvents and ignoredEventIds before the call stay at their
\* positions; an event that already had an entry gets the new triggers
\* appended to that entry's causes and its counter is not bumped again; an
\* event's counter is bumped exactly when the call appends an entry for it.
C32_OutputsAreOnlyAppendedTo ==
    NoteCall =>
        /\ Len(triggeredEvents) >= Len(call.pre.te)
        /\ \A i \in EntriesBefore :
            /\ triggeredEvents[i].event = call.pre.te[i].event
            /\ triggeredEvents[i].causes
                    = call.pre.te[i].causes \o CausesOf(call.pre.te[i].event)
            /\ m_events[call.pre.te[i].event + 1].occ
                    = call.pre.events[call.pre.te[i].event + 1].occ
        /\ Len(ignoredEventIds) >= Len(call.pre.ig)
        /\ \A i \in 1..Len(call.pre.ig) : ignoredEventIds[i] = call.pre.ig[i]
        /\ \A k \in 1..Len(m_events) :
            m_events[k].occ = call.pre.events[k].occ
                + (IF \E i \in EntriesAppended :
                            triggeredEvents[i].event = k - 1
                      THEN 1 ELSE 0)

\* A call given the outputs of an earlier call: an entry of the earlier call
\* gained a cause, another entry was appended behind it, and an id was
\* already on the ignored list.
C32_Witness ==
    /\ NoteCall
    /\ call.pre.ig # << >>
    /\ EntriesAppended # {}
    /\ \E i \in EntriesBefore :
        Len(triggeredEvents[i].causes) > Len(call.pre.te[i].causes)

\* C33: after a call, every input trigger is among the causes of the entry
\* of each recognized EventId it lists, no entry has empty causes, and every
\* id an input trigger lists is represented by an entry or is in
\* ignoredEventIds.
C33_EveryListedIdAccountedFor ==
    NoteCall =>
        /\ \A p \in 1..Len(Listed) :
            LET t == Listed[p][1]
                e == Listed[p][2]
            IN  /\ hasEvent(call.pre.events, e) =>
                    \E i \in 1..Len(triggeredEvents) :
                        /\ triggeredEvents[i].event = e
                        /\ IsIn(t, triggeredEvents[i].causes)
                /\ \/ \E i \in 1..Len(triggeredEvents) :
                        triggeredEvents[i].event = e
                   \/ IsIn(e, ignoredEventIds)
        /\ \A i \in 1..Len(triggeredEvents) :
            triggeredEvents[i].causes # << >>

\* Two input triggers list the same registered event, and one of them also
\* lists an id that is not registered.
C33_Witness ==
    /\ NoteCall
    /\ Len(call.triggers) = 2
    /\ \E e \in RecognizedListed :
        \A k \in 1..2 : IsIn(e, call.pre.triggers[call.triggers[k] + 1].eventIds)
    /\ UnrecognizedListed # {}


\* The cached timer lists an EventId that is not in the event registry.
ListsUnrecognizedId(timerp) ==
    \E i \in 1..Len(m_triggers[timerp + 1].eventIds) :
        ~hasEvent(m_events, m_triggers[timerp + 1].eventIds[i])

\* Some registered event the cached timer lists has a Change action.
CausesRecognizedChange(timerp) ==
    \E i \in 1..Len(m_triggers[timerp + 1].eventIds) :
        LET eid == m_triggers[timerp + 1].eventIds[i]
        IN  hasEvent(m_events, eid) /\ hasChangeAction(m_events[eid + 1])

\* C34: findNextScheduledEventTimes ignores an EventId that is not
\* registered, as noteEventOccurrence does: with such an id listed by a
\* cached timer the call completes normally, and the id counts as an event
\* without a Change action when the timer is classified.
C34_SchedulerIgnoresUnrecognizedIds ==
    call.op = "findNextScheduledEventTimes" =>
        \A k \in 1..Len(m_timers) :
            ListsUnrecognizedId(m_timers[k]) =>
                /\ call.status = "ok"
                /\ ~CausesRecognizedChange(m_timers[k]) =>
                        ~IsIn(m_timers[k], changeTimers)


\* The operations other than noteEventOccurrence.
AdoptionOps == { "adoptEvent", "adoptEventTrigger", "adoptEventHandler",
                 "adoptEventReporter" }
FindActiveOps == { "findActiveEventTimers", "findActiveEventWitnesses" }
PerformOps == { "performEventReportActions", "performEventChangeActions" }
OtherOps ==
    AdoptionOps \cup FindActiveOps \cup PerformOps
        \cup { "realizeTopology", "findNextScheduledEventTimes" }

\* A trigger without the cache indices realizeTopology writes into it.
WithoutCacheIndex(t) == [t EXCEPT !.timerIndex = -1, !.witnessIndex = -1]

\* C35 as stated: adoptions, realizeTopology, the find* queries and the
\* perform* calls leave every occurrence counter, both registries and the
\* named predefined ids unchanged, and the find* queries leave the topology
\* cache unchanged too.
C35_OtherOperationsLeaveRegistries ==
    [][ call'.op \in OtherOps =>
            /\ m_events' = m_events
            /\ m_triggers' = m_triggers
            /\ predefined' = predefined
            /\ (call'.op \in FindActiveOps
                    \/ call'.op = "findNextScheduledEventTimes") =>
                    << m_timers, m_witnesses, m_witnessesByStage >>'
                        = << m_timers, m_witnesses, m_witnessesByStage >> ]_vars

\* C35 (amended): no operation removes a registry entry or lowers an
\* occurrence counter, and only noteEventOccurrence changes one. Every other
\* operation leaves each registered event and trigger as it was, apart from
\* the cache indices realizeTopology writes into triggers, and leaves the
\* named predefined ids unchanged. The registries grow only by adoptions,
\* among them adoptions a change action makes during
\* performEventChangeActions; the find* queries and
\* performEventReportActions leave both registries and the topology cache
\* exactly as they were.
C35_CountersChangedOnlyByNote ==
    [][ /\ Len(m_events') >= Len(m_events)
        /\ Len(m_triggers') >= Len(m_triggers)
        /\ \A k \in 1..Len(m_events) : m_events'[k].occ >= m_events[k].occ
        /\ \A k \in 1..Len(m_triggers) : m_triggers'[k].occ >= m_triggers[k].occ
        /\ call'.op \in OtherOps =>
            /\ \A k \in 1..Len(m_events) : m_events'[k] = m_events[k]
            /\ \A k \in 1..Len(m_triggers) :
                WithoutCacheIndex(m_triggers'[k]) = WithoutCacheIndex(m_triggers[k])
            /\ predefined' = predefined
        /\ call'.op = "realizeTopology" =>
            /\ m_events' = m_events
            /\ Len(m_triggers') = Len(m_triggers)
        /\ call'.op = "performEventChangeActions" => m_triggers' = m_triggers
        /\ (call'.op \in FindActiveOps
                \/ call'.op \in { "findNextScheduledEventTimes",
                                   "performEventReportActions" }) =>
            /\ m_events' = m_events
            /\ m_triggers' = m_triggers
            /\ << m_timers, m_witnesses, m_witnessesByStage >>'
                    = << m_timers, m_witnesses, m_witnessesByStage >> ]_vars

\* A change action adopted an event after counters had been bumped, with a
\* timer in the topology cache.
C35_Witness ==
    /\ call.op = "performEventChangeActions"
    /\ call.status = "ok"
    /\ Len(m_events) > call.pre.numEvents
    /\ \E k \in 1..Len(m_events) : m_events[k].occ > 0
    /\ \E k \in 1..Len(m_triggers) : m_triggers[k].occ > 0
    /\ m_timers # << >>

====
